---- MODULE Spec2Model ----
(***************************************************************************)
(* Car-listing write path of the fadlocar API: the createCar / updateCar / *)
(* deleteCar handlers, the Car model's thumbnail hook, and the blob store  *)
(* (Firebase Storage service, and the local uploads directory of the       *)
(* multer disk variant), the strict controller with the booking           *)
(* controller, the slug helper and the slug hooks of the Car models.       *)
(*                                                                         *)
(* A string holding a path or a URL is modelled as the sequence of its     *)
(* '/'-separated segments, so that split('/').pop(), template strings and  *)
(* path.join are computed as the code computes them.                       *)
(***************************************************************************)
EXTENDS Integers, Sequences, FiniteSets, TLC

VARIABLES
    cars,      \* Listing Repository: car id -> persisted document
    blobs,     \* Blob Store: set of object paths (bucket objects / files on disk)
    nextId,    \* next ObjectId the repository hands out
    nextFile,  \* next unique stored file name (timestamp-random)
    last,      \* the last request handled: its inputs and its response
    bookings,  \* Booking collection: booking id -> persisted booking
    saving     \* operations in progress: a save() call (document and hook position)
               \* or a request on its way through the middleware and its handler

vars == <<cars, blobs, nextId, nextFile, last, bookings, saving>>

\* what the handlers of the car controllers without booking check never touch
bookingAndSaves == <<bookings, saving>>

-----------------------------------------------------------------------------
(* Bounds of the model *)

MaxFiles == 3     \* files ever uploaded
MaxUpload == 2    \* files in one request
MaxDiskFiles == 2 \* files ever put on disk (disk controller)
MaxBookings == 2  \* bookings ever created
MaxBrandLen == 2  \* characters of a brand given to slugify
MaxNameLen == 1   \* characters of a name, and of a disambiguator
MaxSaves == 3     \* documents ever saved under a slug hook
MaxUpdates == 2   \* saves of one listing through the field patches of updateCar
MaxCloudFiles == 3 \* files uploaded to Cloudinary over a run
MaxCloudCars == 2  \* listings ever created by the Cloudinary controller

-----------------------------------------------------------------------------
(* Request inputs *)

Undefined == "undefined"
NoCar == [none |-> TRUE]

BadId == 0                      \* an id that is not 24 hex digits

NameInputs == {Undefined, "X5"}
PriceDomain == {-100, 150, 300}
PriceInputs == {Undefined, "abc"} \cup {ToString(n) : n \in PriceDomain}
TypeEnum == {"Sedan", "SUV", "Hatchback", "Coupe", "Truck"}
TypeInputs == {Undefined, "Van"}
HintRange == (0 - 1)..MaxFiles
HintInputs == {Undefined, "", "abc"} \cup {ToString(i) : i \in HintRange}
UploadOutcomes == {"ok", "streamError", "publicError"}
MimeInputs == {"image/png", "image/gif"}
RepoFaults == {"none", "duplicate", "down"}
NotAnArray == <<"5">>           \* imagesToDelete "5": JSON.parse makes it a number
UnknownToken == <<"zzz", 0>>    \* an identifier that matches no image

\* parseInt: a number for a decimal string, NaN otherwise
ParseIntTable ==
    [s \in HintInputs |->
        IF \E i \in HintRange : ToString(i) = s
        THEN [nan |-> FALSE, val |-> CHOOSE i \in HintRange : ToString(i) = s]
        ELSE [nan |-> TRUE, val |-> 0]]
ParseInt(s) == ParseIntTable[s]

\* Number(price): the number a decimal string writes, 0 for the empty string,
\* NaN otherwise
NumberTable ==
    [s \in PriceInputs \cup {""} |->
        IF \E n \in PriceDomain : ToString(n) = s
        THEN [nan |-> FALSE, val |-> CHOOSE n \in PriceDomain : ToString(n) = s]
        ELSE IF s = "" THEN [nan |-> FALSE, val |-> 0]
        ELSE [nan |-> TRUE, val |-> 0]]
NumberOf(s) == NumberTable[s]

\* validatePrice: throws unless the price is a number >= 0 and a multiple of 100
PriceThrows(price) ==
    LET p == NumberOf(price)
    IN  p.nan \/ p.val < 0 \/ p.val % 100 # 0

-----------------------------------------------------------------------------
(* Sequence helpers *)

\* url.split('/').pop()
LastOf(s) == s[Len(s)]

-----------------------------------------------------------------------------
(* FirebaseStorageService *)

BucketUrl == <<"https:", "", "storage.googleapis.com", "bucket">>

\* uploadFile: object name `${folder}/${timestamp}-${random}${ext}`
ObjectName(folder, n) == <<folder, n>>

\* uploadFile: the result handed back for one stored file
UploadResult(folder, n) ==
    [url |-> BucketUrl \o ObjectName(folder, n), filename |-> ObjectName(folder, n)]

\* deleteFile: the object path it looks up for a URL
DeletePath(url) == <<"uploads", LastOf(url)>>

\* what the bucket does with one deleteFile call: it answers, or exists() or
\* delete() rejects
DeleteOutcomes == {"ok", "error"}

\* deleteFile: removes the object when it exists
DeleteFile(store, url, outcome) ==
    IF outcome = "ok" /\ DeletePath(url) \in store THEN store \ {DeletePath(url)} ELSE store

\* deleteFile: true after a delete, false for a missing object, throws otherwise
DeleteFileResult(store, url, outcome) ==
    IF outcome # "ok" THEN "throws"
    ELSE IF DeletePath(url) \in store THEN "true" ELSE "false"

\* deleteMultipleFiles: deleteFile on every URL
RECURSIVE DeleteMultipleFiles(_, _, _)
DeleteMultipleFiles(store, urls, outcomes) ==
    IF urls = <<>> THEN store
    ELSE DeleteMultipleFiles(DeleteFile(store, Head(urls), Head(outcomes)),
                             Tail(urls), Tail(outcomes))

\* deleteMultipleFiles: Promise.allSettled settles every deleteFile promise, so a
\* deleteFile that throws does not reject the batch
DeleteBatchRejectsOnThrow(store, urls, outcomes) ==
    \E i \in DOMAIN urls : DeleteFileResult(store, urls[i], outcomes[i]) = "throws"
DeleteBatchRejects(store, urls, outcomes) == FALSE

\* a batch in which the bucket answers every call
AllOk(urls) == [i \in DOMAIN urls |-> "ok"]

\* uploadMultipleFiles: the objects the batch leaves in the bucket
\* (a stream that finished wrote its object, also when makePublic then failed)
BatchWritten(folder, first, outcomes) ==
    {ObjectName(folder, first + i - 1) : i \in {j \in DOMAIN outcomes : outcomes[j] # "streamError"}}

\* uploadMultipleFiles: Promise.all rejects as soon as one upload rejects
BatchRejects(outcomes) == \E i \in DOMAIN outcomes : outcomes[i] # "ok"

\* uploads of the batch that resolved
BatchResolved(folder, first, outcomes) ==
    {ObjectName(folder, first + i - 1) : i \in {j \in DOMAIN outcomes : outcomes[j] = "ok"}}

-----------------------------------------------------------------------------
(* Car model *)

\* imageSchema: a stored image; _id is the subdocument id
Image(url, filename, path, isPrimary, n) ==
    [url |-> url, filename |-> filename, path |-> path, isPrimary |-> isPrimary,
     oid |-> <<"oid", n>>]

NoThumbnail == [url |-> <<>>, filename |-> <<>>, path |-> <<>>]

IsPrimaryAt(images) == {i \in DOMAIN images : images[i].isPrimary}

\* images.find(img => img.isPrimary) || images[0]
PrimaryOrFirst(images) ==
    IF IsPrimaryAt(images) # {}
    THEN images[CHOOSE i \in IsPrimaryAt(images) : \A j \in IsPrimaryAt(images) : i <= j]
    ELSE images[1]

\* pre('save') thumbnail hook
ThumbnailHook(doc) ==
    IF Len(doc.images) > 0
    THEN [doc EXCEPT !.thumbnail =
            [url |-> PrimaryOrFirst(doc.images).url,
             filename |-> PrimaryOrFirst(doc.images).filename,
             path |-> PrimaryOrFirst(doc.images).path]]
    ELSE [doc EXCEPT !.thumbnail = NoThumbnail]

\* save: schema validation, then the repository's answer
SaveError(doc, fault) ==
    IF doc.type \notin TypeEnum THEN "ValidationError" ELSE fault

-----------------------------------------------------------------------------
(* carController.js helpers *)

\* createImageObject (Firebase): path is the object name
createImageObject(result, isPrimary, n) ==
    Image(result.url, result.filename, result.filename, isPrimary, n)

\* createCar: !req.files || !req.files.images || req.files.images.length === 0
MissingImagesUnchecked(nfiles) == FALSE
MissingImages(nfiles) == nfiles = 0

\* parseInt(primaryImageIndex) || 0
PrimaryIndexOrZero(raw) ==
    LET p == ParseInt(raw) IN IF p.nan THEN 0 ELSE p.val

\* what a request leaves to observe: the request (op, id, del, nfiles, hint), the
\* response (status, and error: which failure the message reports), the listing
\* before the call, the objects the call wrote and the objects it removed
Response(op, id, answer, prev, uploaded, removed, del, nfiles, hint) ==
    [op |-> op, id |-> id, status |-> answer[1], error |-> answer[2], prev |-> prev,
     uploaded |-> uploaded, removed |-> removed, del |-> del, nfiles |-> nfiles,
     hint |-> hint]

\* imagesToDelete arrays: some images of the listing named by filename, or named
\* by _id, or an identifier that matches no image
DelInputs(images) ==
    {{images[i].filename : i \in S} : S \in SUBSET DOMAIN images}
        \cup {{images[i].oid : i \in S} : S \in SUBSET DOMAIN images}
        \cup {{UnknownToken}}

\* imagesToDeleteArray.includes(img.filename) || imagesToDeleteArray.includes(img._id.toString())
MatchesDelete(img, del) == img.filename \in del \/ img.oid \in del

\* updateCar: the images the deletion keeps, in their order
FilterImagesEither(images, del) ==
    SelectSeq(images, LAMBDA img : img.filename \notin del \/ img.oid \notin del)
FilterImages(images, del) == SelectSeq(images, LAMBDA img : ~MatchesDelete(img, del))

\* updateCar: the URLs of the images the deletion removes
ImagesToDeleteUrls(images, del) ==
    LET gone == SelectSeq(images, LAMBDA img : MatchesDelete(img, del))
    IN  [i \in DOMAIN gone |-> gone[i].url]

\* updateCar: primaryImageIndex given: reset every flag, set the chosen one
\* (images is not empty here)
SelectPrimaryKeepsFlags(images, raw) ==
    IF raw = Undefined \/ raw = ""
    THEN images
    ELSE LET p == ParseInt(raw)
             k == IF ~p.nan /\ p.val >= 0 /\ p.val < Len(images) THEN p.val + 1 ELSE 1
         IN  [images EXCEPT ![k].isPrimary = TRUE]
SelectPrimary(images, raw) ==
    IF raw = Undefined \/ raw = ""
    THEN images
    ELSE LET p == ParseInt(raw)
             k == IF ~p.nan /\ p.val >= 0 /\ p.val < Len(images) THEN p.val + 1 ELSE 1
         IN  [i \in DOMAIN images |-> [images[i] EXCEPT !.isPrimary = (i = k)]]

\* updateCar: no image flagged: flag the first (images is not empty here)
EnsurePrimary(images) ==
    IF \E i \in DOMAIN images : images[i].isPrimary
    THEN images
    ELSE [images EXCEPT ![1].isPrimary = TRUE]

(* Repository *)

Insert(repo, id, doc) == [i \in DOMAIN repo \cup {id} |-> IF i = id THEN doc ELSE repo[i]]
RemoveNothing(repo, id) == repo
Remove(repo, id) == [i \in DOMAIN repo \ {id} |-> repo[i]]

\* findById hands out a copy; only save() writes the document back
PersistUnsaved(repo, id, doc, saved) == [repo EXCEPT ![id] = doc]
Persist(repo, id, doc, saved) ==
    IF saved THEN [repo EXCEPT ![id] = ThumbnailHook(doc)] ELSE repo

(* Local-disk variant: multer disk storage and the controller that unlinks files *)

UploadsDir == <<"uploads">>
BaseUrl == <<"http:", "", "host">>

\* multer.diskStorage: the file is written to the uploads directory under a unique name
DiskFile(n, mimetype) ==
    [filename |-> <<n>>, path |-> UploadsDir \o <<n>>, mimetype |-> mimetype]

\* the files multer has put on disk when the controller starts
MulterWritten(first, mimes) == {UploadsDir \o <<first + i - 1>> : i \in DOMAIN mimes}

\* createImageObject (disk): url `${baseUrl}/uploads/${file.filename}`
createImageObjectDisk(file, isPrimary, n) ==
    Image(BaseUrl \o <<"uploads">> \o file.filename, file.filename, file.path, isPrimary, n)

\* deleteImageFiles: unlinks path.join(__dirname, '../uploads', filename) when it exists
RECURSIVE deleteImageFiles(_, _)
deleteImageFiles(store, filenames) ==
    IF filenames = <<>> THEN store
    ELSE deleteImageFiles(store \ {UploadsDir \o Head(filenames)}, Tail(filenames))

\* validateImageFiles: throws without files or on a type outside JPEG, PNG, WebP
AllowedMimeTypes == {"image/jpeg", "image/jpg", "image/png", "image/webp"}
ValidateImageFilesThrows(mimes) ==
    Len(mimes) = 0 \/ \E i \in DOMAIN mimes : mimes[i] \notin AllowedMimeTypes

\* updateCar (disk): the filenames of the images the deletion removes
ImagesToDeleteFilenames(images, del) ==
    LET gone == SelectSeq(images, LAMBDA img : MatchesDelete(img, del))
    IN  [i \in DOMAIN gone |-> gone[i].filename]

\* save under the disk controller: a price that is no number fails the cast
SaveErrorDisk(doc, priceIsNaN, fault) ==
    IF priceIsNaN \/ doc.type \notin TypeEnum THEN "ValidationError" ELSE fault

\* status of the catch block of the disk controller
CatchStatusDisk(err) == IF err \in {"duplicate", "ValidationError"} THEN 400 ELSE 500

NoRequest == Response("none", BadId, <<0, "none">>, NoCar, {}, {}, {}, 0, Undefined)

\* the same, with what the bucket did with each deleteFile call of the request
WithDeletes(response, deletes) ==
    [f \in DOMAIN response \cup {"deletes"} |->
        IF f = "deletes" THEN deletes ELSE response[f]]

-----------------------------------------------------------------------------

Init ==
    /\ cars = <<>>
    /\ blobs = {}
    /\ nextId = 1
    /\ nextFile = 1
    /\ last = NoRequest
    /\ bookings = <<>>
    /\ saving = <<>>

\* createCar of carController.js (Firebase Storage)
createCar ==
    /\ last = NoRequest
    /\ UNCHANGED bookingAndSaves
    /\ \E name \in NameInputs, price \in PriceInputs :
        LET Reply(status, nfiles, raw, up, before, store) ==
                last' = Response("createCar", nextId, status, NoCar, up,
                                 before \ store, {}, nfiles, raw)
        IN  IF name = Undefined \/ price = Undefined \/ PriceThrows(price)
            THEN /\ Reply(<<400, "input">>, 0, Undefined, {}, blobs, blobs)
                 /\ UNCHANGED <<cars, blobs, nextId, nextFile>>
            ELSE \E nfiles \in 0..MaxUpload :
                 IF MissingImages(nfiles)
                 THEN /\ Reply(<<400, "noImage">>, 0, Undefined, {}, blobs, blobs)
                      /\ UNCHANGED <<cars, blobs, nextId, nextFile>>
                 ELSE \E outcomes \in [1..nfiles -> UploadOutcomes] :
                      /\ nextFile + nfiles - 1 <= MaxFiles
                      /\ nextFile' = nextFile + nfiles
                      /\ LET written == BatchWritten("cars", nextFile, outcomes)
                             results == [i \in 1..nfiles |-> UploadResult("cars", nextFile + i - 1)]
                             urls == [i \in 1..nfiles |-> results[i].url]
                             cleaned == DeleteMultipleFiles(blobs \cup written, urls, AllOk(urls))
                         IN  IF BatchRejects(outcomes)
                             THEN \* uploadedFiles is still [] in the catch block
                                  /\ blobs' = blobs \cup written
                                  /\ Reply(<<400, "upload">>, nfiles, Undefined,
                                           BatchResolved("cars", nextFile, outcomes),
                                           blobs \cup written, blobs \cup written)
                                  /\ UNCHANGED <<cars, nextId>>
                             ELSE \E typ \in TypeInputs, fault \in RepoFaults, raw \in HintInputs :
                                  LET images == [i \in 1..nfiles |->
                                          createImageObject(results[i],
                                              (i - 1) = PrimaryIndexOrZero(raw), nextFile + i - 1)]
                                      doc == [type |-> IF typ = Undefined THEN "Sedan" ELSE typ,
                                              price |-> NumberOf(price).val,
                                              images |-> images,
                                              thumbnail |-> NoThumbnail]
                                  IN  IF SaveError(doc, fault) # "none"
                                      THEN /\ blobs' = cleaned
                                           /\ Reply(<<400, "save">>, nfiles, raw, written,
                                                    blobs \cup written, cleaned)
                                           /\ UNCHANGED <<cars, nextId>>
                                      ELSE /\ cars' = Insert(cars, nextId, ThumbnailHook(doc))
                                           /\ blobs' = blobs \cup written
                                           /\ nextId' = nextId + 1
                                           /\ Reply(<<201, "none">>, nfiles, raw, written,
                                                    blobs \cup written, blobs \cup written)

\* updateCar of carController.js (Firebase Storage)
updateCar ==
    /\ last = NoRequest
    /\ UNCHANGED bookingAndSaves
    /\ \E id \in 1..nextId \cup {BadId} :
        LET Early(status, prev, del, nfiles, raw, up, before, store) ==
                last' = WithDeletes(Response("updateCar", id, status, prev, up,
                                             before \ store, del, nfiles, raw), <<>>)
        IN  IF id = BadId
            THEN /\ Early(<<400, "badId">>, NoCar, {}, 0, Undefined, {}, blobs, blobs)
                 /\ UNCHANGED <<cars, blobs, nextId, nextFile>>
            ELSE IF id \notin DOMAIN cars
            THEN /\ Early(<<404, "notFound">>, NoCar, {}, 0, Undefined, {}, blobs, blobs)
                 /\ UNCHANGED <<cars, blobs, nextId, nextFile>>
            ELSE \E price \in PriceInputs :
                 LET car == cars[id]
                     priced == [car EXCEPT !.price =
                                  IF price = Undefined THEN @ ELSE NumberOf(price).val]
                 IN  IF price # Undefined /\ PriceThrows(price)
                     THEN /\ Early(<<400, "input">>, car, {}, 0, Undefined, {}, blobs, blobs)
                          /\ UNCHANGED <<cars, blobs, nextId, nextFile>>
                     ELSE \/ \* imagesToDelete is no array: includes is not a function
                             /\ Early(<<400, "exception">>, car, {NotAnArray}, 0, Undefined, {}, blobs, blobs)
                             /\ cars' = Persist(cars, id, priced, FALSE)
                             /\ UNCHANGED <<blobs, nextId, nextFile>>
                          \/ \E del \in DelInputs(car.images), nfiles \in 0..MaxUpload :
                             \E outcomes \in [1..nfiles -> UploadOutcomes],
                                deletes \in [DOMAIN ImagesToDeleteUrls(car.images, del)
                                               -> DeleteOutcomes] :
                             /\ nextFile + nfiles - 1 <= MaxFiles
                             /\ nextFile' = nextFile + nfiles
                             /\ UNCHANGED nextId
                             /\ LET Reply(status, prev, dl, n, raw, up, before, store) ==
                                        last' = WithDeletes(Response("updateCar", id, status,
                                                    prev, up, before \ store, dl, n, raw),
                                                    deletes)
                                    gone == ImagesToDeleteUrls(car.images, del)
                                    kept == FilterImages(car.images, del)
                                    afterDelete == DeleteMultipleFiles(blobs, gone, deletes)
                                    written == BatchWritten("cars", nextFile, outcomes)
                                    results == [i \in 1..nfiles |->
                                                  UploadResult("cars", nextFile + i - 1)]
                                    urls == [i \in 1..nfiles |-> results[i].url]
                                    newImages == [i \in 1..nfiles |->
                                        createImageObject(results[i], FALSE, nextFile + i - 1)]
                                    merged == kept \o newImages
                                    stored == afterDelete \cup written
                                    cleaned == DeleteMultipleFiles(stored, urls, AllOk(urls))
                                IN  IF DeleteBatchRejects(blobs, gone, deletes)
                                    THEN /\ blobs' = afterDelete
                                         /\ cars' = Persist(cars, id,
                                                [priced EXCEPT !.images = kept], FALSE)
                                         /\ Reply(<<400, "delete">>, car, del, 0, Undefined, {},
                                                  blobs, afterDelete)
                                    ELSE IF BatchRejects(outcomes)
                                    THEN \* newUploadedFiles is still [] in the catch block
                                         /\ blobs' = stored
                                         /\ cars' = Persist(cars, id,
                                                [priced EXCEPT !.images = kept], FALSE)
                                         /\ Reply(<<400, "upload">>, car, del, nfiles, Undefined,
                                                  BatchResolved("cars", nextFile, outcomes),
                                                  blobs \cup written, stored)
                                    ELSE IF Len(merged) = 0
                                    THEN /\ blobs' = cleaned
                                         /\ cars' = Persist(cars, id,
                                                [priced EXCEPT !.images = merged], FALSE)
                                         /\ Reply(<<400, "empty">>, car, del, nfiles, Undefined, written,
                                                  blobs \cup written, cleaned)
                                    ELSE \E typ \in TypeInputs, fault \in RepoFaults :
                                         LET typed == [priced EXCEPT
                                                 !.type = IF typ = Undefined THEN @ ELSE typ,
                                                 !.images = merged]
                                         IN  IF SaveError(typed, fault) # "none"
                                             THEN /\ blobs' = cleaned
                                                  /\ cars' = Persist(cars, id, typed, FALSE)
                                                  /\ Reply(<<400, "save">>, car, del, nfiles, Undefined,
                                                           written, blobs \cup written, cleaned)
                                             ELSE \E raw \in HintInputs :
                                                  /\ blobs' = stored
                                                  /\ cars' = Persist(cars, id,
                                                       [typed EXCEPT !.images =
                                                          EnsurePrimary(SelectPrimary(merged, raw))],
                                                       TRUE)
                                                  /\ Reply(<<200, "none">>, car, del, nfiles, raw, written,
                                                           blobs \cup written, stored)

\* deleteCar of carController.js (Firebase Storage)
deleteCar ==
    /\ last = NoRequest
    /\ UNCHANGED bookingAndSaves
    /\ \E id \in 1..nextId \cup {BadId} :
        LET Reply(status, prev, before, store, deletes) ==
                last' = WithDeletes(Response("deleteCar", id, status, prev, {},
                                             before \ store, {}, 0, Undefined), deletes)
        IN  IF id = BadId
            THEN /\ Reply(<<400, "badId">>, NoCar, blobs, blobs, <<>>)
                 /\ UNCHANGED <<cars, blobs, nextId, nextFile>>
            ELSE IF id \notin DOMAIN cars
            THEN /\ Reply(<<404, "notFound">>, NoCar, blobs, blobs, <<>>)
                 /\ UNCHANGED <<cars, blobs, nextId, nextFile>>
            ELSE \E fault \in {"none", "down"},
                    deletes \in [DOMAIN cars[id].images -> DeleteOutcomes] :
                 LET car == cars[id]
                     urls == [i \in DOMAIN car.images |-> car.images[i].url]
                     store == DeleteMultipleFiles(blobs, urls, deletes)
                 IN  /\ UNCHANGED <<nextId, nextFile>>
                     /\ blobs' = store
                     /\ IF DeleteBatchRejects(blobs, urls, deletes)
                        THEN /\ cars' = cars
                             /\ Reply(<<500, "delete">>, car, blobs, store, deletes)
                        ELSE /\ cars' = IF fault = "none" THEN Remove(cars, id) ELSE cars
                             /\ Reply(IF fault = "none" THEN <<200, "none">>
                                      ELSE <<500, "repository">>, car, blobs, store, deletes)

\* createCar of the disk controller; multer has stored the files before it runs
createCarDisk ==
    /\ last = NoRequest
    /\ UNCHANGED bookingAndSaves
    /\ \E name \in NameInputs, price \in PriceInputs, nfiles \in 0..MaxUpload :
       \E mimes \in [1..nfiles -> MimeInputs] :
        /\ nextFile + nfiles - 1 <= MaxDiskFiles
        /\ nextFile' = nextFile + nfiles
        /\ LET onDisk == blobs \cup MulterWritten(nextFile, mimes)
               files == [i \in 1..nfiles |-> DiskFile(nextFile + i - 1, mimes[i])]
               Reply(status, raw, store) ==
                   last' = Response("createCar", nextId, status, NoCar,
                                    MulterWritten(nextFile, mimes), onDisk \ store,
                                    {}, nfiles, raw)
           IN  IF name = Undefined \/ price = Undefined
               THEN /\ blobs' = onDisk
                    /\ Reply(<<400, "input">>, Undefined, onDisk)
                    /\ UNCHANGED <<cars, nextId>>
               ELSE IF ValidateImageFilesThrows(mimes)
               THEN \* uploadedFiles is still [] in the catch block
                    /\ blobs' = onDisk
                    /\ Reply(<<500, "files">>, Undefined, onDisk)
                    /\ UNCHANGED <<cars, nextId>>
               ELSE \E typ \in TypeInputs, fault \in RepoFaults, raw \in HintInputs :
                    LET images == [i \in 1..nfiles |->
                            createImageObjectDisk(files[i],
                                (i - 1) = PrimaryIndexOrZero(raw), nextFile + i - 1)]
                        doc == [type |-> IF typ = Undefined THEN "Sedan" ELSE typ,
                                price |-> NumberOf(price).val,
                                images |-> images,
                                thumbnail |-> NoThumbnail]
                        err == SaveErrorDisk(doc, NumberOf(price).nan, fault)
                        cleaned == deleteImageFiles(onDisk,
                                       [i \in 1..nfiles |-> images[i].filename])
                    IN  IF err # "none"
                        THEN /\ blobs' = cleaned
                             /\ Reply(<<CatchStatusDisk(err), "save">>, raw, cleaned)
                             /\ UNCHANGED <<cars, nextId>>
                        ELSE /\ cars' = Insert(cars, nextId, ThumbnailHook(doc))
                             /\ blobs' = onDisk
                             /\ nextId' = nextId + 1
                             /\ Reply(<<201, "none">>, raw, onDisk)

\* updateCar of the disk controller
updateCarDisk ==
    /\ last = NoRequest
    /\ UNCHANGED bookingAndSaves
    /\ \E id \in 1..nextId \cup {BadId}, nfiles \in 0..MaxUpload :
       \E mimes \in [1..nfiles -> MimeInputs] :
        /\ nextFile + nfiles - 1 <= MaxDiskFiles
        /\ nextFile' = nextFile + nfiles
        /\ UNCHANGED nextId
        /\ LET onDisk == blobs \cup MulterWritten(nextFile, mimes)
               files == [i \in 1..nfiles |-> DiskFile(nextFile + i - 1, mimes[i])]
               Reply(status, prev, del, raw, store) ==
                   last' = Response("updateCar", id, status, prev,
                                    MulterWritten(nextFile, mimes), onDisk \ store,
                                    del, nfiles, raw)
           IN  IF id = BadId \/ id \notin DOMAIN cars
               THEN /\ blobs' = onDisk
                    /\ Reply(IF id = BadId THEN <<400, "badId">> ELSE <<404, "notFound">>, NoCar, {}, Undefined, onDisk)
                    /\ UNCHANGED cars
               ELSE \E price \in PriceInputs, del \in DelInputs(cars[id].images) :
                    LET car == cars[id]
                        priced == [car EXCEPT !.price =
                                     IF price = Undefined THEN @ ELSE NumberOf(price).val]
                        priceIsNaN == price # Undefined /\ NumberOf(price).nan
                        kept == FilterImages(car.images, del)
                        afterDelete == deleteImageFiles(onDisk,
                                           ImagesToDeleteFilenames(car.images, del))
                        newImages == [i \in 1..nfiles |->
                            createImageObjectDisk(files[i], FALSE, nextFile + i - 1)]
                        merged == kept \o newImages
                        cleaned == deleteImageFiles(afterDelete,
                                       [i \in 1..nfiles |-> newImages[i].filename])
                    IN  IF nfiles > 0 /\ ValidateImageFilesThrows(mimes)
                        THEN \* newUploadedFiles is still [] in the catch block
                             /\ blobs' = afterDelete
                             /\ cars' = Persist(cars, id, [priced EXCEPT !.images = kept], FALSE)
                             /\ Reply(<<500, "files">>, car, del, Undefined, afterDelete)
                        ELSE IF Len(merged) = 0
                        THEN /\ blobs' = cleaned
                             /\ cars' = Persist(cars, id, [priced EXCEPT !.images = merged], FALSE)
                             /\ Reply(<<400, "empty">>, car, del, Undefined, cleaned)
                        ELSE \E typ \in TypeInputs, fault \in RepoFaults :
                             LET typed == [priced EXCEPT
                                     !.type = IF typ = Undefined THEN @ ELSE typ,
                                     !.images = merged]
                                 err == SaveErrorDisk(typed, priceIsNaN, fault)
                             IN  IF err # "none"
                                 THEN /\ blobs' = cleaned
                                      /\ cars' = Persist(cars, id, typed, FALSE)
                                      /\ Reply(<<CatchStatusDisk(err), "save">>, car, del, Undefined, cleaned)
                                 ELSE \E raw \in HintInputs :
                                      /\ blobs' = afterDelete
                                      /\ cars' = Persist(cars, id,
                                           [typed EXCEPT !.images =
                                              EnsurePrimary(SelectPrimary(merged, raw))], TRUE)
                                      /\ Reply(<<200, "none">>, car, del, raw, afterDelete)

\* deleteCar of the disk controller
deleteCarDisk ==
    /\ last = NoRequest
    /\ UNCHANGED bookingAndSaves
    /\ \E id \in 1..nextId \cup {BadId} :
        LET Reply(status, prev, store) ==
                last' = Response("deleteCar", id, status, prev, {}, blobs \ store,
                                 {}, 0, Undefined)
        IN  IF id = BadId \/ id \notin DOMAIN cars
            THEN /\ Reply(IF id = BadId THEN <<400, "badId">> ELSE <<404, "notFound">>, NoCar, blobs)
                 /\ UNCHANGED <<cars, blobs, nextId, nextFile>>
            ELSE \E fault \in {"none", "down"} :
                 LET car == cars[id]
                     store == deleteImageFiles(blobs,
                                 [i \in DOMAIN car.images |-> car.images[i].filename])
                 IN  /\ blobs' = store
                     /\ cars' = IF fault = "none" THEN Remove(cars, id) ELSE cars
                     /\ Reply(IF fault = "none" THEN <<200, "none">> ELSE <<500, "repository">>, car, store)
                     /\ UNCHANGED <<nextId, nextFile>>

\* the response is sent; the server takes the next request
nextRequest ==
    /\ last # NoRequest
    /\ last' = NoRequest
    /\ UNCHANGED <<cars, blobs, nextId, nextFile, bookings, saving>>

Next == createCar \/ updateCar \/ deleteCar \/ nextRequest

Spec == Init /\ [][Next]_vars

(* Route table of routes/carRoutes.js: protect runs before the handler *)

\* who sends a request: no Authorization header, a token jwt.verify rejects, a
\* valid token of a user that no longer exists, a plain user, an administrator
Principals ==
    {[token |-> "none", role |-> "none"], [token |-> "invalid", role |-> "none"],
     [token |-> "valid", role |-> "none"], [token |-> "valid", role |-> "user"],
     [token |-> "valid", role |-> "admin"]}

\* protect: 401 without a Bearer token, on a token that does not verify, and
\* when User.findById finds nobody; next() otherwise
ProtectRejects(who) == who.token # "valid" \/ who.role = "none"

ProtectedRoutes == {"createCar", "updateCar", "deleteCar"}

\* no request is in the middleware chain
Waiting == [route |-> "none", role |-> "none"]

InitRoutes ==
    /\ cars = <<>>
    /\ blobs = {}
    /\ nextId = 1
    /\ nextFile = 1
    /\ last = NoRequest
    /\ bookings = <<>>
    /\ saving = Waiting

\* protect on POST /, PUT /:id and DELETE /:id
protect ==
    /\ last = NoRequest
    /\ saving = Waiting
    /\ UNCHANGED <<cars, blobs, nextId, nextFile, bookings>>
    /\ \E route \in ProtectedRoutes, who \in Principals :
        IF ProtectRejects(who)
        THEN /\ last' = Response(route, BadId, <<401, "token">>, NoCar, {}, {}, {}, 0,
                                 Undefined)
             /\ UNCHANGED saving
        ELSE /\ saving' = [route |-> route, role |-> who.role]
             /\ UNCHANGED last

\* the handler that protect handed the request to
routePost == saving.route = "createCar" /\ createCar
routePut == saving.route = "updateCar" /\ updateCar
routeDelete == saving.route = "deleteCar" /\ deleteCar

\* the response is sent; the server takes the next request
requestDone ==
    /\ last # NoRequest
    /\ last' = NoRequest
    /\ saving' = Waiting
    /\ UNCHANGED <<cars, blobs, nextId, nextFile, bookings>>

NextRoutes == protect \/ routePost \/ routePut \/ routeDelete \/ requestDone

SpecRoutes == InitRoutes /\ [][NextRoutes]_vars

\* a repository that already holds a listing whose isPrimary flags are arbitrary
\* (the schema puts no constraint on them)
StoredImages == 2
InitStored ==
    /\ \E flags \in [1..StoredImages -> BOOLEAN] :
          cars = Insert(<<>>, 1, ThumbnailHook(
                    [type |-> "Sedan", price |-> 300, thumbnail |-> NoThumbnail,
                     images |-> [i \in 1..StoredImages |->
                         createImageObject(UploadResult("cars", i), flags[i], i)]]))
    /\ blobs = {ObjectName("cars", i) : i \in 1..StoredImages}
    /\ nextId = 2
    /\ nextFile = StoredImages + 1
    /\ last = NoRequest
    /\ bookings = <<>>
    /\ saving = <<>>

SpecStored == InitStored /\ [][Next]_vars

\* the disk controller behind the multer disk-storage routes
NextDisk == createCarDisk \/ updateCarDisk \/ deleteCarDisk \/ nextRequest

SpecDisk == Init /\ [][NextDisk]_vars

-----------------------------------------------------------------------------
(* Two updateCar requests of the disk controller on the same listing, with no *)
(* storage or repository failure; each await of the handler ends a step, and  *)
(* save() writes the document the request holds (last write wins); the       *)
(* requests carry no scalar fields                                            *)

Updaters == {1, 2}

\* an updateCar request that has not arrived yet, and one that was answered
NotUpdating == [pc |-> "idle"]
Answered(status) == [pc |-> "done", status |-> status]

\* the requests tried: imagesToDelete names images by filename, primaryImageIndex
\* is absent or 1, at most one file is uploaded
RaceDelInputs(images) == {{images[i].filename : i \in S} : S \in SUBSET DOMAIN images}
RaceHints == {Undefined, "1"}
RaceUpload == 1

\* a repository holding one listing with its image files on disk
InitDiskRace ==
    /\ cars = Insert(<<>>, 1, ThumbnailHook(
                 [type |-> "Sedan", price |-> 300, thumbnail |-> NoThumbnail,
                  images |-> [i \in 1..StoredImages |->
                      createImageObjectDisk(DiskFile(i, "image/png"), i = 1, i)]]))
    /\ blobs = {UploadsDir \o <<i>> : i \in 1..StoredImages}
    /\ nextId = 2
    /\ nextFile = StoredImages + 1
    /\ last = NoRequest
    /\ bookings = <<>>
    /\ saving = [p \in Updaters |-> NotUpdating]

\* updateCar up to `await Car.findById(id)`: multer has stored the files, the
\* request gets its own copy of the document
updateLoad(p) ==
    /\ saving[p].pc = "idle"
    /\ UNCHANGED <<cars, nextId, last, bookings>>
    /\ \E nfiles \in 0..RaceUpload, del \in RaceDelInputs(cars[1].images),
          raw \in RaceHints :
        /\ nextFile + nfiles - 1 <= MaxFiles
        /\ nextFile' = nextFile + nfiles
        /\ blobs' = blobs \cup {UploadsDir \o <<nextFile + i - 1>> : i \in 1..nfiles}
        /\ saving' = [saving EXCEPT ![p] =
              [pc |-> "delete", doc |-> cars[1], del |-> del, hint |-> raw,
               files |-> [i \in 1..nfiles |-> DiskFile(nextFile + i - 1, "image/png")]]]

\* updateCar up to `await deleteImageFiles(imagesToDeleteFilenames)`
updateDelete(p) ==
    /\ saving[p].pc = "delete"
    /\ UNCHANGED <<cars, nextId, nextFile, last, bookings>>
    /\ LET req == saving[p]
       IN  /\ blobs' = deleteImageFiles(blobs, ImagesToDeleteFilenames(req.doc.images, req.del))
           /\ saving' = [saving EXCEPT ![p].pc = "save",
                                       ![p].doc.images = FilterImages(req.doc.images, req.del)]

\* updateCar from the new images to `await car.save()` and the response
updateSave(p) ==
    /\ saving[p].pc = "save"
    /\ UNCHANGED <<nextId, nextFile, last, bookings>>
    /\ LET req == saving[p]
           newImages == [i \in DOMAIN req.files |->
                            createImageObjectDisk(req.files[i], FALSE,
                                                  req.files[i].filename[1])]
           merged == req.doc.images \o newImages
       IN  IF Len(merged) = 0
           THEN /\ blobs' = deleteImageFiles(blobs,
                                [i \in DOMAIN newImages |-> newImages[i].filename])
                /\ UNCHANGED cars
                /\ saving' = [saving EXCEPT ![p] = Answered(400)]
           ELSE /\ cars' = Persist(cars, 1,
                               [req.doc EXCEPT !.images =
                                   EnsurePrimary(SelectPrimary(merged, req.hint))], TRUE)
                /\ UNCHANGED blobs
                /\ saving' = [saving EXCEPT ![p] = Answered(200)]

NextDiskRace == \E p \in Updaters : updateLoad(p) \/ updateDelete(p) \/ updateSave(p)

SpecDiskRace == InitDiskRace /\ [][NextDiskRace]_vars

-----------------------------------------------------------------------------

(* Strict variant of the car controller, with the booking controller *)

CarsDir == <<"uploads", "cars">>
Roles == {"admin", "user"}
BookingStatuses == {"confirmed", "completed", "cancelled"}
ActiveStatuses == {"pending", "confirmed", "active"}
StatusInputs == BookingStatuses \cup {"active"}
StrictTypeInputs == {Undefined, "Van", "SUV"}
SpecsInputs == {Undefined, "{"}     \* "{" : JSON.parse throws
RequiredFields == {"name", "brand", "type", "price", "description"}

\* the request bodies of createCar: brand and description are always sent
StrictBodies ==
    [name : NameInputs, brand : {"BMW"}, type : StrictTypeInputs,
     price : PriceInputs, description : {"d"}, specs : SpecsInputs]

\* createCar: !value || value.toString().trim() === ''
MissingFields(body) == {f \in RequiredFields : body[f] = Undefined \/ body[f] = ""}

\* isValidCarType
IsValidCarType(type) == type \in TypeEnum

\* createCar: isNaN(priceNumber) || priceNumber <= 0
StrictPriceInvalid(price) == NumberOf(price).nan \/ NumberOf(price).val <= 0

\* validateSpecs: JSON.parse of a string that is no JSON throws
ValidateSpecsThrows(specs) == specs = "{"

\* createCar: the validation steps in their order; the first that fails answers
\* 400 and names the fields of that step only
ValidationReportAll(body) ==
    MissingFields(body)
        \cup (IF body.type # Undefined /\ ~IsValidCarType(body.type) THEN {"type"} ELSE {})
        \cup (IF body.price # Undefined /\ StrictPriceInvalid(body.price) THEN {"price"} ELSE {})
        \cup (IF ValidateSpecsThrows(body.specs) THEN {"specs"} ELSE {})
ValidationReport(body) ==
    IF MissingFields(body) # {} THEN MissingFields(body)
    ELSE IF ~IsValidCarType(body.type) THEN {"type"}
    ELSE IF StrictPriceInvalid(body.price) THEN {"price"}
    ELSE IF ValidateSpecsThrows(body.specs) THEN {"specs"}
    ELSE {}

\* createCar: Math.min(Math.max(0, parseInt(primaryImageIndex) || 0), req.files.length - 1)
ValidPrimaryIndex(raw, nfiles) ==
    LET idx == IF PrimaryIndexOrZero(raw) < 0 THEN 0 ELSE PrimaryIndexOrZero(raw)
    IN  IF idx < nfiles - 1 THEN idx ELSE nfiles - 1

\* carImageSchema: filename, isPrimary and the subdocument _id
StrictImage(n, isPrimary) == [filename |-> <<n>>, isPrimary |-> isPrimary, oid |-> <<"oid", n>>]

\* deleteImageFiles (strict): unlinks uploads/cars/<filename> when it exists
RECURSIVE deleteImageFilesStrict(_, _)
deleteImageFilesStrict(store, filenames) ==
    IF filenames = <<>> THEN store
    ELSE deleteImageFilesStrict(store \ {CarsDir \o Head(filenames)}, Tail(filenames))

\* what a request of the strict controller leaves to observe
StrictResponse(op, id, answer, body, named, uploaded, nfiles) ==
    [op |-> op, id |-> id, status |-> answer[1], error |-> answer[2], body |-> body,
     named |-> named, uploaded |-> uploaded, nfiles |-> nfiles]

\* Booking.find({ car, status: { $in: ['pending', 'confirmed', 'active'] } })
ActiveBookings(coll, id) ==
    {b \in DOMAIN coll : coll[b].car = id /\ coll[b].status \in ActiveStatuses}

\* Booking.deleteMany({ car })
DeleteMany(coll, id) == SelectSeq(coll, LAMBDA b : b.car # id)

\* booking.deleteOne()
DeleteOne(coll, b) == [i \in 1..(Len(coll) - 1) |-> IF i < b THEN coll[i] ELSE coll[i + 1]]

\* createCar of the strict controller; multer has stored the files before it runs
createCarStrict ==
    /\ last = NoRequest
    /\ UNCHANGED bookingAndSaves
    /\ \E role \in Roles, nfiles \in 0..MaxUpload :
        /\ nextFile + nfiles - 1 <= MaxDiskFiles
        /\ nextFile' = nextFile + nfiles
        /\ LET written == {CarsDir \o <<nextFile + i - 1>> : i \in 1..nfiles}
               onDisk == blobs \cup written
               cleaned == deleteImageFilesStrict(onDisk, [i \in 1..nfiles |-> <<nextFile + i - 1>>])
               Reply(status, body, named) ==
                   last' = StrictResponse("createCar", nextId, status, body, named, written, nfiles)
           IN  IF role # "admin"
               THEN /\ blobs' = onDisk
                    /\ Reply(<<403, "role">>, Undefined, {})
                    /\ UNCHANGED <<cars, nextId>>
               ELSE \E body \in StrictBodies :
                    IF ValidationReport(body) # {}
                    THEN /\ blobs' = onDisk
                         /\ Reply(<<400, "input">>, body, ValidationReport(body))
                         /\ UNCHANGED <<cars, nextId>>
                    ELSE IF nfiles = 0
                    THEN /\ blobs' = onDisk
                         /\ Reply(<<400, "noImage">>, body, {"images"})
                         /\ UNCHANGED <<cars, nextId>>
                    ELSE \E fault \in RepoFaults, raw \in HintInputs :
                         LET doc == [name |-> body.name, brand |-> body.brand,
                                     type |-> body.type, price |-> NumberOf(body.price).val,
                                     images |-> [i \in 1..nfiles |->
                                         StrictImage(nextFile + i - 1,
                                             (i - 1) = ValidPrimaryIndex(raw, nfiles))]]
                         IN  IF fault # "none"
                             THEN /\ blobs' = cleaned
                                  /\ Reply(<<IF fault = "duplicate" THEN 400 ELSE 500, "save">>,
                                           body, {})
                                  /\ UNCHANGED <<cars, nextId>>
                             ELSE /\ cars' = Insert(cars, nextId, doc)
                                  /\ blobs' = onDisk
                                  /\ nextId' = nextId + 1
                                  /\ Reply(<<201, "none">>, body, {})

\* deleteCar of the strict controller, with its booking check
deleteCarStrict ==
    /\ last = NoRequest
    /\ UNCHANGED <<nextId, nextFile, saving>>
    /\ \E role \in Roles, id \in 1..nextId \cup {BadId} :
        LET Reply(status) ==
                last' = StrictResponse("deleteCar", id, status, Undefined, {}, {}, 0)
        IN  IF role # "admin" \/ id = BadId \/ id \notin DOMAIN cars
            THEN /\ Reply(IF role # "admin" THEN <<403, "role">>
                          ELSE IF id = BadId THEN <<400, "badId">> ELSE <<404, "notFound">>)
                 /\ UNCHANGED <<cars, blobs, bookings>>
            ELSE \E lookupFails \in BOOLEAN :
                 IF ~lookupFails /\ ActiveBookings(bookings, id) # {}
                 THEN /\ Reply(<<409, "bookings">>)
                      /\ UNCHANGED <<cars, blobs, bookings>>
                 ELSE \E fault \in {"none", "down"}, cleanupFails \in BOOLEAN :
                      /\ blobs' = deleteImageFilesStrict(blobs,
                              [i \in DOMAIN cars[id].images |-> cars[id].images[i].filename])
                      /\ IF fault # "none"
                         THEN /\ Reply(<<500, "repository">>)
                              /\ UNCHANGED <<cars, bookings>>
                         ELSE /\ cars' = Remove(cars, id)
                              /\ bookings' = IF cleanupFails THEN bookings
                                              ELSE DeleteMany(bookings, id)
                              /\ Reply(<<200, "none">>)

\* the res object of a request: the statuses written to the client, the number
\* of res.json calls, and whether an error left the handler uncaught
NewRes == [sent |-> <<>>, calls |-> 0, uncaught |-> FALSE]

\* res.status(code).json(...): writes the response; throws when one was written
ResJsonThrows(res) == res.sent # <<>>
ResJson(res, code) ==
    IF ResJsonThrows(res)
    THEN [res EXCEPT !.calls = @ + 1]
    ELSE [res EXCEPT !.calls = @ + 1, !.sent = <<code>>]

\* a response of the booking controller together with its res object
Sent(response, res) ==
    [f \in DOMAIN response \cup {"res"} |-> IF f = "res" THEN res ELSE response[f]]

\* a handler that calls res.json once
SentOnce(response) == Sent(response, ResJson(NewRes, response.status))

\* createBooking of the booking controller
createBooking ==
    /\ last = NoRequest
    /\ UNCHANGED <<cars, blobs, nextId, nextFile, saving>>
    /\ \E carId \in 1..nextId, complete \in BOOLEAN, fault \in {"none", "down", "emit"} :
        LET Reply(status) ==
                last' = SentOnce(StrictResponse("createBooking", carId, status, Undefined,
                                                {}, {}, 0))
        IN  IF ~complete
            THEN Reply(<<400, "input">>) /\ UNCHANGED bookings
            ELSE IF carId \notin DOMAIN cars
            THEN Reply(<<404, "notFound">>) /\ UNCHANGED bookings
            ELSE IF fault = "down"
            THEN Reply(<<500, "repository">>) /\ UNCHANGED bookings
            ELSE /\ Len(bookings) < MaxBookings
                 /\ bookings' = Append(bookings, [car |-> carId, status |-> "confirmed"])
                 /\ \* populate or req.io.emit throws after the save
                    Reply(IF fault = "emit" THEN <<500, "emit">> ELSE <<201, "none">>)

\* getAllBookings of the booking controller: on success res.json is called
\* twice; the second call throws, and so does the res.json of the catch block
getAllBookings ==
    /\ last = NoRequest
    /\ UNCHANGED <<cars, blobs, nextId, nextFile, bookings, saving>>
    /\ \E fault \in {"none", "down"} :
        LET first == ResJson(NewRes, 200)
            second == ResJson(first, 200)
            caught == ResJson(second, 500)
            Reply(status, res) ==
                last' = Sent(StrictResponse("getAllBookings", BadId, status, Undefined,
                                            {}, {}, 0), res)
        IN  IF fault # "none"
            THEN Reply(<<500, "repository">>, ResJson(NewRes, 500))
            ELSE IF ~ResJsonThrows(first)
            THEN Reply(<<200, "none">>, second)
            ELSE Reply(<<200, "none">>,
                       [caught EXCEPT !.uncaught = ResJsonThrows(second)])

\* updateBookingStatus of the booking controller
updateBookingStatus ==
    /\ last = NoRequest
    /\ UNCHANGED <<cars, blobs, nextId, nextFile, saving>>
    /\ \E b \in 1..(Len(bookings) + 1), status \in StatusInputs,
          fault \in {"none", "find", "save", "populate"} :
        LET Reply(answer) ==
                last' = SentOnce(StrictResponse("updateBookingStatus", b, answer, status,
                                                {}, {}, 0))
        IN  IF fault = "find"
            THEN Reply(<<500, "repository">>) /\ UNCHANGED bookings
            ELSE IF status \notin BookingStatuses
            THEN Reply(<<400, "input">>) /\ UNCHANGED bookings
            ELSE IF b \notin DOMAIN bookings
            THEN Reply(<<404, "notFound">>) /\ UNCHANGED bookings
            ELSE IF fault = "save"
            THEN Reply(<<500, "repository">>) /\ UNCHANGED bookings
            ELSE /\ bookings' = [bookings EXCEPT ![b].status = status]
                 /\ Reply(IF fault = "populate" THEN <<500, "populate">>
                          ELSE <<200, "none">>)

\* deleteBooking of the booking controller
deleteBooking ==
    /\ last = NoRequest
    /\ UNCHANGED <<cars, blobs, nextId, nextFile, saving>>
    /\ \E b \in 1..(Len(bookings) + 1), fault \in {"none", "down"} :
        LET Reply(answer) ==
                last' = SentOnce(StrictResponse("deleteBooking", b, answer, Undefined,
                                                {}, {}, 0))
        IN  IF fault # "none"
            THEN Reply(<<500, "repository">>) /\ UNCHANGED bookings
            ELSE IF b \notin DOMAIN bookings
            THEN Reply(<<404, "notFound">>) /\ UNCHANGED bookings
            ELSE /\ bookings' = DeleteOne(bookings, b)
                 /\ Reply(<<200, "none">>)

NextStrict ==
    \/ createCarStrict \/ deleteCarStrict
    \/ createBooking \/ getAllBookings \/ updateBookingStatus \/ deleteBooking
    \/ nextRequest

SpecStrict == Init /\ [][NextStrict]_vars

-----------------------------------------------------------------------------
(* updateCar of the strict controller *)

\* what an updateCar request of the strict controller leaves to observe: the
\* request (id, del, nfiles, hint, multipart), the response, the repository and
\* the files before the call
StrictUpdateResponse(id, answer, del, nfiles, hint, multipart, repo, store) ==
    [op |-> "updateCar", id |-> id, status |-> answer[1], error |-> answer[2],
     del |-> del, nfiles |-> nfiles, hint |-> hint, multipart |-> multipart,
     repo |-> repo, store |-> store]

UnknownFile == <<0>>            \* a filename no image has

\* the filenames of every image of every listing
AllFilenames(repo) ==
    UNION {{repo[c].images[i].filename : i \in DOMAIN repo[c].images} : c \in DOMAIN repo}

\* imagesToDelete arrays: none, one filename of any listing or of none, or the
\* first two images of the listing
DelArrays(repo, id) ==
    {<<>>} \cup {<<f>> : f \in AllFilenames(repo) \cup {UnknownFile}}
           \cup (IF Len(repo[id].images) >= 2
                 THEN {<<repo[id].images[1].filename, repo[id].images[2].filename>>}
                 ELSE {})

\* car.images.filter(img => !imagesToDeleteArray.includes(img.filename))
FilterImagesStrict(images, del) ==
    SelectSeq(images, LAMBDA img : \A k \in DOMAIN del : del[k] # img.filename)

\* updateCar, new files: the uploads appended, one flagged when its position is
\* Math.min(Math.max(0, parseInt(primaryImageIndex) || 0), total - 1)
AppendUploads(images, first, nfiles, raw) ==
    images \o [i \in 1..nfiles |->
        StrictImage(first + i - 1,
            (Len(images) + i - 1) = ValidPrimaryIndex(raw, Len(images) + nfiles))]

\* updateCar, no req.files: isNaN(primaryIdx) || primaryIdx < 0 || primaryIdx >= car.images.length
ReassignInvalid(images, raw) ==
    ParseInt(raw).nan \/ ParseInt(raw).val < 0 \/ ParseInt(raw).val >= Len(images)

\* updateCar, no req.files: img.isPrimary = index === primaryIdx
Reassign(images, raw) ==
    [i \in DOMAIN images |-> [images[i] EXCEPT !.isPrimary = (i - 1 = ParseInt(raw).val)]]

\* updateCar: primaryImages.length !== 1: the first image becomes the primary
AutoCorrect(images) ==
    IF Cardinality({i \in DOMAIN images : images[i].isPrimary}) # 1
    THEN [i \in DOMAIN images |-> [images[i] EXCEPT !.isPrimary = (i = 1)]]
    ELSE images

\* updateCar of the strict controller; multer has stored the files before it
\* runs, and leaves req.files undefined when the request is not multipart
updateCarStrict ==
    /\ last = NoRequest
    /\ UNCHANGED <<nextId, bookings, saving>>
    /\ \E role \in Roles, id \in 1..nextId \cup {BadId}, multipart \in BOOLEAN :
       \E nfiles \in (IF multipart THEN 0..MaxUpload ELSE {0}) :
        /\ nextFile + nfiles - 1 <= MaxDiskFiles
        /\ nextFile' = nextFile + nfiles
        /\ LET names == [i \in 1..nfiles |-> <<nextFile + i - 1>>]
               onDisk == blobs \cup {CarsDir \o names[i] : i \in 1..nfiles}
               Reply(status, del, raw) ==
                   last' = StrictUpdateResponse(id, status, del, nfiles, raw, multipart,
                                                cars, onDisk)
           IN  IF role # "admin" \/ id = BadId \/ id \notin DOMAIN cars
               THEN /\ Reply(IF role # "admin" THEN <<403, "role">>
                             ELSE IF id = BadId THEN <<400, "badId">>
                             ELSE <<404, "notFound">>, <<>>, Undefined)
                    /\ blobs' = onDisk
                    /\ UNCHANGED cars
               ELSE \E name \in NameInputs \cup {""} :
                    IF name = ""
                    THEN /\ Reply(<<400, "input">>, <<>>, Undefined)
                         /\ blobs' = onDisk
                         /\ UNCHANGED cars
                    ELSE \E del \in DelArrays(cars, id), parseThrows \in BOOLEAN :
                         IF parseThrows
                         THEN \* imagesToDelete is a string that is no JSON
                              /\ del = <<>>
                              /\ Reply(<<400, "json">>, del, Undefined)
                              /\ blobs' = deleteImageFilesStrict(onDisk, names)
                              /\ UNCHANGED cars
                         ELSE \E raw \in HintInputs :
                              LET named == [cars[id] EXCEPT
                                              !.name = IF name = Undefined THEN @ ELSE name]
                                  afterDelete == deleteImageFilesStrict(onDisk, del)
                                  kept == FilterImagesStrict(named.images, del)
                                  merged == IF nfiles > 0
                                            THEN AppendUploads(kept, nextFile, nfiles, raw)
                                            ELSE kept
                                  reassign == raw # Undefined /\ ~multipart
                              IN  IF reassign /\ ReassignInvalid(merged, raw)
                                  THEN /\ Reply(<<400, "hint">>, del, raw)
                                       /\ blobs' = afterDelete
                                       /\ UNCHANGED cars
                                  ELSE IF Len(merged) = 0
                                  THEN /\ Reply(<<400, "empty">>, del, raw)
                                       /\ blobs' = afterDelete
                                       /\ UNCHANGED cars
                                  ELSE \E fault \in RepoFaults :
                                       IF fault # "none"
                                       THEN /\ Reply(<<IF fault = "duplicate" THEN 400 ELSE 500,
                                                       "save">>, del, raw)
                                            /\ blobs' = deleteImageFilesStrict(afterDelete, names)
                                            /\ UNCHANGED cars
                                       ELSE /\ Reply(<<200, "none">>, del, raw)
                                            /\ blobs' = afterDelete
                                            /\ cars' = [cars EXCEPT ![id] =
                                                 [named EXCEPT !.images = AutoCorrect(
                                                     IF reassign THEN Reassign(merged, raw)
                                                     ELSE merged)]]

NextStrictUpdate == createCarStrict \/ updateCarStrict \/ nextRequest

SpecStrictUpdate == Init /\ [][NextStrictUpdate]_vars

-----------------------------------------------------------------------------

(* createBooking and deleteCar of the strict variant as concurrent requests: *)
(* each await of a handler ends a step, so the two requests interleave      *)

\* a request that is not running; status is the answer of its last run
Resting(status) == [pc |-> "idle", id |-> BadId, status |-> status]

\* listings stored by createCar, one image file each, and no booking
RaceCars == 2
InitRace ==
    /\ cars = [c \in 1..RaceCars |->
                  [name |-> "X5", brand |-> "BMW", type |-> "SUV", price |-> 300,
                   images |-> <<StrictImage(c, TRUE)>>]]
    /\ blobs = {CarsDir \o <<c>> : c \in 1..RaceCars}
    /\ nextId = RaceCars + 1
    /\ nextFile = RaceCars + 1
    /\ last = NoRequest
    /\ bookings = <<>>
    /\ saving = [book |-> Resting(0), del |-> Resting(0)]

\* createBooking up to `await Car.findById(carId)`
bookFind ==
    /\ saving.book.pc = "idle"
    /\ Len(bookings) < MaxBookings
    /\ UNCHANGED <<cars, blobs, nextId, nextFile, last, bookings>>
    /\ \E carId \in 1..RaceCars, complete \in BOOLEAN,
          fault \in {"none", "down"} :
        saving' = [saving EXCEPT !.book =
            IF ~complete THEN Resting(400)
            ELSE IF fault # "none" THEN Resting(500)
            ELSE IF carId \notin DOMAIN cars THEN Resting(404)
            ELSE [pc |-> "save", id |-> carId, status |-> 0]]

\* createBooking from `await newBooking.save()` to the response
bookSave ==
    /\ saving.book.pc = "save"
    /\ UNCHANGED <<cars, blobs, nextId, nextFile, last>>
    /\ \E fault \in {"none", "down", "emit"} :
        /\ bookings' = IF fault = "down" THEN bookings
                       ELSE Append(bookings, [car |-> saving.book.id, status |-> "confirmed"])
        /\ saving' = [saving EXCEPT !.book =
                         Resting(IF fault = "none" THEN 201 ELSE 500)]

\* deleteCar up to `await Car.findById(req.params.id)`
delFind ==
    /\ saving.del.pc = "idle"
    /\ UNCHANGED <<cars, blobs, nextId, nextFile, last, bookings>>
    /\ \E role \in Roles, id \in 1..RaceCars \cup {BadId} :
        saving' = [saving EXCEPT !.del =
            IF role # "admin" THEN Resting(403)
            ELSE IF id = BadId THEN Resting(400)
            ELSE IF id \notin DOMAIN cars THEN Resting(404)
            ELSE [pc |-> "check", id |-> id, status |-> 0]]

\* deleteCar: the booking check, `await Booking.find(...)` in its try/catch
delCheck ==
    /\ saving.del.pc = "check"
    /\ UNCHANGED <<cars, blobs, nextId, nextFile, last, bookings>>
    /\ \E lookupFails \in BOOLEAN :
        saving' = [saving EXCEPT !.del =
            IF ~lookupFails /\ ActiveBookings(bookings, saving.del.id) # {}
            THEN Resting(409)
            ELSE [@ EXCEPT !.pc = "files"]]

\* deleteCar: `await deleteImageFiles(filenames)`, then
\* `await Car.findByIdAndDelete(req.params.id)`
delRecord ==
    /\ saving.del.pc = "files"
    /\ UNCHANGED <<nextId, nextFile, last, bookings>>
    /\ \E fault \in {"none", "down"} :
        LET id == saving.del.id
        IN  /\ blobs' = IF id \in DOMAIN cars
                        THEN deleteImageFilesStrict(blobs,
                                 [i \in DOMAIN cars[id].images |-> cars[id].images[i].filename])
                        ELSE blobs
            /\ IF fault # "none"
               THEN /\ saving' = [saving EXCEPT !.del = Resting(500)]
                    /\ UNCHANGED cars
               ELSE IF id \notin DOMAIN cars
               THEN /\ saving' = [saving EXCEPT !.del = Resting(404)]
                    /\ UNCHANGED cars
               ELSE /\ saving' = [saving EXCEPT !.del.pc = "bookings"]
                    /\ cars' = Remove(cars, id)

\* deleteCar: `await Booking.deleteMany({ car })` in its try/catch, the response
delBookings ==
    /\ saving.del.pc = "bookings"
    /\ UNCHANGED <<cars, blobs, nextId, nextFile, last>>
    /\ \E cleanupFails \in BOOLEAN :
        bookings' = IF cleanupFails THEN bookings ELSE DeleteMany(bookings, saving.del.id)
    /\ saving' = [saving EXCEPT !.del = Resting(200)]

NextRace == bookFind \/ bookSave \/ delFind \/ delCheck \/ delRecord \/ delBookings

SpecRace == InitRace /\ [][NextRace]_vars

-----------------------------------------------------------------------------

(* Slug helper of the controller: a string is the sequence of its characters *)

UpperCase == <<"A", "B", "C", "D", "E", "F", "G", "H", "I", "J", "K", "L", "M", "N", "O", "P", "Q", "R", "S", "T", "U", "V", "W", "X", "Y", "Z">>
LowerCaseLetters == <<"a", "b", "c", "d", "e", "f", "g", "h", "i", "j", "k", "l", "m", "n", "o", "p", "q", "r", "s", "t", "u", "v", "w", "x", "y", "z">>
Digits == {"0", "1", "2", "3", "4", "5", "6", "7", "8", "9"}
Hyphen == "-"

\* toLowerCase, one character
ToLowerChar(c) ==
    IF \E i \in DOMAIN UpperCase : UpperCase[i] = c
    THEN LowerCaseLetters[CHOOSE i \in DOMAIN UpperCase : UpperCase[i] = c]
    ELSE c

\* toLowerCase
ToLowerCase(text) == [i \in DOMAIN text |-> ToLowerChar(text[i])]

\* \s
IsSpace(c) == c = " "

\* \w : [A-Za-z0-9_]
IsWordChar(c) ==
    \/ \E i \in DOMAIN UpperCase : c = UpperCase[i] \/ c = LowerCaseLetters[i]
    \/ c \in Digits
    \/ c = "_"

\* replace(/\s+/g, '-')
RECURSIVE ReplaceSpaceRuns(_)
ReplaceSpaceRuns(text) ==
    IF text = <<>> THEN <<>>
    ELSE IF IsSpace(Head(text))
    THEN IF Len(text) > 1 /\ IsSpace(text[2])
         THEN ReplaceSpaceRuns(Tail(text))
         ELSE <<Hyphen>> \o ReplaceSpaceRuns(Tail(text))
    ELSE <<Head(text)>> \o ReplaceSpaceRuns(Tail(text))

\* replace(/[^\w\-]+/g, '')
StripNonWord(text) == SelectSeq(text, LAMBDA c : IsWordChar(c) \/ c = Hyphen)

\* replace(/\-\-+/g, '-')
RECURSIVE CollapseHyphens(_)
CollapseHyphens(text) ==
    IF text = <<>> THEN <<>>
    ELSE IF Head(text) = Hyphen /\ Len(text) > 1 /\ text[2] = Hyphen
    THEN CollapseHyphens(Tail(text))
    ELSE <<Head(text)>> \o CollapseHyphens(Tail(text))

\* replace(/^-+/, '')
RECURSIVE TrimLeadingHyphens(_)
TrimLeadingHyphens(text) ==
    IF text # <<>> /\ Head(text) = Hyphen THEN TrimLeadingHyphens(Tail(text)) ELSE text

\* replace(/-+$/, '')
RECURSIVE TrimTrailingHyphens(_)
TrimTrailingHyphens(text) ==
    IF text # <<>> /\ text[Len(text)] = Hyphen
    THEN TrimTrailingHyphens(SubSeq(text, 1, Len(text) - 1))
    ELSE text

slugify(text) ==
    TrimTrailingHyphens(TrimLeadingHyphens(CollapseHyphens(StripNonWord(
        ReplaceSpaceRuns(ToLowerCase(text))))))

\* `${car.brand}-${car.name}-${car._id}`
SlugSource(brand, name, id) == brand \o <<Hyphen>> \o name \o <<Hyphen>> \o id

\* the characters tried in brands, names and disambiguators
SlugAlphabet == {"a", "B", "5", " ", "-", "!", "_"}
StringsUpTo(n) == UNION {[1..k -> SlugAlphabet] : k \in 0..n}
ExampleInputs ==
    {<<<<"B", "M", "W">>, <<"X", "5">>, <<"a", "b", "c", "1", "2", "3">>>>,
     <<<<"M", "e", "r", "c", "e", "d", "e", "s", "-", "B", "e", "n", "z", "!">>, <<"C", " ", "C", "l", "a", "s", "s">>, <<"0", "0", "0", "0", "0", "1">>>>}
SlugInputs ==
    (StringsUpTo(MaxBrandLen) \X StringsUpTo(MaxNameLen) \X StringsUpTo(MaxNameLen))
        \cup ExampleInputs

\* the controller computes the slug of a listing from brand, name and disambiguator
slugUpdate ==
    /\ last = NoRequest
    /\ \E input \in SlugInputs :
          last' = [op |-> "slugify", brand |-> input[1], name |-> input[2], id |-> input[3],
                   slug |-> slugify(SlugSource(input[1], input[2], input[3]))]
    /\ UNCHANGED <<cars, blobs, nextId, nextFile, bookings, saving>>

NextSlugify == slugUpdate \/ nextRequest

SpecSlugify == Init /\ [][NextSlugify]_vars

-----------------------------------------------------------------------------
(* Cloudinary variant of the car controller: multer-storage-cloudinary has *)
(* uploaded the files of a request before the handler runs                 *)

\* names sent with a request; the empty string stands also for an absent name
CloudNames == {<<>>, <<"X", "5">>, <<"X", " ", "6">>}
CloudBrand == <<"B">>

\* a stored image: file.path is the delivery URL, file.filename the public_id
CloudImage(n) == [url |-> <<"res", n>>, public_id |-> <<"cars", n>>]

NoCloudThumbnail == [url |-> <<>>, public_id |-> <<>>]

\* what a request of the Cloudinary controller leaves to observe: the request
\* (id, del), the response, the listing before the call and the public_ids that
\* cloudinary.uploader.destroy was called with
CloudResponse(op, id, answer, del, prev, destroyed) ==
    [op |-> op, id |-> id, status |-> answer[1], error |-> answer[2], del |-> del,
     prev |-> prev, destroyed |-> destroyed]

\* imagesToDelete: absent, one URL, or an array of URLs of the listing
CloudDelInputs(images) == {{images[i].url : i \in S} : S \in SUBSET DOMAIN images}

\* car.images.filter(img => !imagesToDeleteArray.includes(img.url))
FilterImagesCloud(images, del) == SelectSeq(images, LAMBDA img : img.url \notin del)

\* updateCar: for each URL to delete, car.images.find(img => img.url === imageUrl)
\* on the list as it is at that point; destroy is called for what is found
DestroyCalls(images, del) ==
    {images[i].public_id : i \in {j \in DOMAIN images : images[j].url \in del}}

\* cloudinary.uploader.destroy: the asset is gone unless the call fails (the
\* calls of one request fail together or not at all)
Destroy(store, ids, fails) == IF fails THEN store ELSE store \ ids

\* catch block: duplicate key 400, anything else 500
CatchStatusCloud(fault) == IF fault = "duplicate" THEN 400 ELSE 500

\* createCar of the Cloudinary controller
createCarCloudinary ==
    /\ last = NoRequest
    /\ UNCHANGED bookingAndSaves
    /\ \E name \in CloudNames \ {<<>>}, nfiles \in 0..MaxUpload, thumb \in 0..1,
          fault \in RepoFaults :
        /\ nextId <= MaxCloudCars
        /\ nextFile + nfiles + thumb - 1 <= MaxCloudFiles
        /\ nextFile' = nextFile + nfiles + thumb
        /\ blobs' = blobs \cup {CloudImage(nextFile + i - 1).public_id : i \in 1..(nfiles + thumb)}
        /\ LET doc == [name |-> name, brand |-> CloudBrand,
                       slug |-> slugify(CloudBrand \o <<Hyphen>> \o name),
                       thumbnail |-> IF thumb = 1 THEN CloudImage(nextFile + nfiles)
                                     ELSE NoCloudThumbnail,
                       images |-> [i \in 1..nfiles |-> CloudImage(nextFile + i - 1)]]
           IN  IF fault # "none"
               THEN /\ last' = CloudResponse("createCar", nextId,
                                   <<CatchStatusCloud(fault), "save">>, {}, NoCar, {})
                    /\ UNCHANGED <<cars, nextId>>
               ELSE /\ last' = CloudResponse("createCar", nextId, <<201, "none">>, {}, NoCar, {})
                    /\ cars' = Insert(cars, nextId, doc)
                    /\ nextId' = nextId + 1

\* updateCar of the Cloudinary controller
updateCarCloudinary ==
    /\ last = NoRequest
    /\ UNCHANGED <<nextId, bookings, saving>>
    /\ \E id \in 1..nextId \cup {BadId}, nfiles \in 0..MaxUpload, thumb \in 0..1 :
        /\ nextFile + nfiles + thumb - 1 <= MaxCloudFiles
        /\ nextFile' = nextFile + nfiles + thumb
        /\ LET uploaded == blobs \cup
                   {CloudImage(nextFile + i - 1).public_id : i \in 1..(nfiles + thumb)}
           IN  IF id = BadId \/ id \notin DOMAIN cars
               THEN \* findById throws a CastError for an id that is no ObjectId
                    /\ last' = CloudResponse("updateCar", id,
                                   IF id = BadId THEN <<500, "badId">> ELSE <<404, "notFound">>,
                                   {}, NoCar, {})
                    /\ blobs' = uploaded
                    /\ UNCHANGED cars
               ELSE \E name \in CloudNames, del \in CloudDelInputs(cars[id].images),
                       destroyFails \in BOOLEAN, fault \in RepoFaults :
                    LET car == cars[id]
                        named == IF name = <<>> THEN car.name ELSE name
                        kept == FilterImagesCloud(car.images, del)
                        imageCalls == DestroyCalls(kept, del)
                        thumbCalls == IF thumb = 1 /\ car.thumbnail # NoCloudThumbnail
                                      THEN {car.thumbnail.public_id} ELSE {}
                        doc == [car EXCEPT
                                  !.name = named,
                                  !.slug = slugify(car.brand \o <<Hyphen>> \o named),
                                  !.images = kept \o [i \in 1..nfiles |->
                                                 CloudImage(nextFile + i - 1)],
                                  !.thumbnail = IF thumb = 1 THEN CloudImage(nextFile + nfiles)
                                                ELSE @]
                    IN  /\ blobs' = Destroy(uploaded, imageCalls \cup thumbCalls, destroyFails)
                        /\ IF fault # "none"
                           THEN /\ last' = CloudResponse("updateCar", id,
                                               <<CatchStatusCloud(fault), "save">>, del, car,
                                               imageCalls \cup thumbCalls)
                                /\ UNCHANGED cars
                           ELSE /\ last' = CloudResponse("updateCar", id, <<200, "none">>, del,
                                               car, imageCalls \cup thumbCalls)
                                /\ cars' = [cars EXCEPT ![id] = doc]

\* deleteCar of the Cloudinary controller
deleteCarCloudinary ==
    /\ last = NoRequest
    /\ UNCHANGED <<nextId, nextFile, bookings, saving>>
    /\ \E id \in 1..nextId \cup {BadId} :
        IF id = BadId \/ id \notin DOMAIN cars
        THEN /\ last' = CloudResponse("deleteCar", id,
                            IF id = BadId THEN <<500, "badId">> ELSE <<404, "notFound">>,
                            {}, NoCar, {})
             /\ UNCHANGED <<cars, blobs>>
        ELSE \E destroyFails \in BOOLEAN, fault \in {"none", "down"} :
             LET car == cars[id]
                 filesToDelete ==
                     (IF car.thumbnail # NoCloudThumbnail THEN {car.thumbnail.public_id} ELSE {})
                     \cup {car.images[i].public_id : i \in DOMAIN car.images}
             IN  /\ blobs' = Destroy(blobs, filesToDelete, destroyFails)
                 /\ cars' = IF fault = "none" THEN Remove(cars, id) ELSE cars
                 /\ last' = CloudResponse("deleteCar", id,
                                IF fault = "none" THEN <<200, "none">> ELSE <<500, "repository">>,
                                {}, car, filesToDelete)

NextCloudinary ==
    createCarCloudinary \/ updateCarCloudinary \/ deleteCarCloudinary \/ nextRequest

SpecCloudinary == Init /\ [][NextCloudinary]_vars

-----------------------------------------------------------------------------

(* Pre-save slug hook of models/Car.js: look up the slug, append a counter.    *)
(* Each await of the hook and the insert that follows it are separate steps of *)
(* the save, so that two saves interleave.                                     *)

Savers == {1, 2}
Idle == [pc |-> "idle"]
BrandInputs == {<<"B", "M", "W">>}
ModelInputs == {<<"X", "5">>, <<"X", " ", "5">>}

\* `${brand.toLowerCase().replace(/\s+/g, '-')}-${name.toLowerCase().replace(/\s+/g, '-')}`
BaseSlug(brand, name) ==
    ReplaceSpaceRuns(ToLowerCase(brand)) \o <<Hyphen>> \o ReplaceSpaceRuns(ToLowerCase(name))

\* `${baseSlug}-${counter}`
CounterSlug(baseSlug, counter) == baseSlug \o <<Hyphen, ToString(counter)>>

\* Car.findOne({ slug, _id: { $ne: this._id } })
FindOtherWithSlug(repo, slug, id) == \E i \in DOMAIN repo : i # id /\ repo[i].slug = slug

\* unique index on slug: the insert is refused when another document has the slug
DuplicateKey(repo, slug, id) == FindOtherWithSlug(repo, slug, id)

InitSaves ==
    /\ cars = <<>>
    /\ blobs = {}
    /\ nextId = 1
    /\ nextFile = 1
    /\ last = NoRequest
    /\ bookings = <<>>
    /\ saving = [p \in Savers |-> Idle]

\* new Car(data).save(): the document gets its _id; the hook computes baseSlug
saveBegin(p) ==
    /\ saving[p].pc \in {"idle", "saved", "failed"}
    /\ nextId <= MaxSaves
    /\ \E brand \in BrandInputs, name \in ModelInputs :
          saving' = [saving EXCEPT ![p] =
              [pc |-> "checkSlug", id |-> nextId, brand |-> brand, name |-> name,
               slug |-> BaseSlug(brand, name), counter |-> 1]]
    /\ nextId' = nextId + 1
    /\ UNCHANGED <<cars, blobs, nextFile, last, bookings>>

\* checkSlug: one findOne; on a hit try the next counter, else keep the slug
checkSlug(p) ==
    /\ saving[p].pc = "checkSlug"
    /\ LET doc == saving[p]
       IN  saving' = [saving EXCEPT ![p] =
             IF FindOtherWithSlug(cars, doc.slug, doc.id)
             THEN [doc EXCEPT !.slug = CounterSlug(BaseSlug(doc.brand, doc.name), doc.counter),
                              !.counter = doc.counter + 1]
             ELSE [doc EXCEPT !.pc = "insert"]]
    /\ UNCHANGED <<cars, blobs, nextId, nextFile, last, bookings>>

\* the hook called next(): the document is inserted, or the unique index refuses it
insertDocument(p) ==
    /\ saving[p].pc = "insert"
    /\ IF DuplicateKey(cars, saving[p].slug, saving[p].id)
       THEN /\ saving' = [saving EXCEPT ![p].pc = "failed"]
            /\ UNCHANGED cars
       ELSE /\ saving' = [saving EXCEPT ![p].pc = "saved"]
            /\ cars' = Insert(cars, saving[p].id,
                   [brand |-> saving[p].brand, name |-> saving[p].name,
                    slug |-> saving[p].slug])
    /\ UNCHANGED <<blobs, nextId, nextFile, last, bookings>>

NextSaves == \E p \in Savers : saveBegin(p) \/ checkSlug(p) \/ insertDocument(p)

SpecSaves == InitSaves /\ [][NextSaves]_vars

-----------------------------------------------------------------------------
(* Id-suffix slug hooks of the Car model with thumbnail (pre and post save) *)

NoSlug == <<>>
Unassigned == <<Undefined>>       \* the field is not assigned before the save
BrandPatches == {Unassigned, <<"B", "M", "W">>, <<"K", "i", "a", "!">>}
NamePatches == {Unassigned, <<"X", "5">>, <<"X", " ", "5">>}

\* the ObjectId of the n-th document as a hexadecimal string
IdString(n) == <<"6", "5", "f", "0", "0", "0", "0", ToString(n)>>

\* toString().slice(-6)
LastSix(text) == SubSeq(text, Len(text) - 5, Len(text))

\* doc.slug.endsWith(suffix)
EndsWith(text, suffix) ==
    Len(text) >= Len(suffix) /\ SubSeq(text, Len(text) - Len(suffix) + 1, Len(text)) = suffix

RECURSIVE TrimSpaces(_)
TrimSpaces(text) ==
    IF text # <<>> /\ IsSpace(Head(text)) THEN TrimSpaces(Tail(text))
    ELSE IF text # <<>> /\ IsSpace(text[Len(text)])
    THEN TrimSpaces(SubSeq(text, 1, Len(text) - 1))
    ELSE text

\* slugify(text, { lower: true, strict: true, remove }) of the slugify package:
\* the replacement character counts as a space, characters outside
\* [A-Za-z0-9 ] are dropped, the ends are trimmed, runs of spaces become '-'
PackageSlugify(text) ==
    LET spaced == [i \in DOMAIN text |-> IF text[i] = Hyphen THEN " " ELSE text[i]]
        strict == SelectSeq(spaced, LAMBDA c : (IsWordChar(c) /\ c # "_") \/ IsSpace(c))
    IN  ToLowerCase(ReplaceSpaceRuns(TrimSpaces(strict)))

\* `${baseSlug}-${this._id.toString().slice(-6)}`
IdSlug(brand, name, id) ==
    PackageSlugify(brand \o <<Hyphen>> \o name) \o <<Hyphen>> \o LastSix(IdString(id))

\* pre('save') slug hook: on creation or when name or brand changed
SlugHookNewOnly(doc, id, isNew, modified) ==
    IF isNew THEN [doc EXCEPT !.slug = IdSlug(doc.brand, doc.name, id)] ELSE doc
SlugHook(doc, id, isNew, modified) ==
    IF isNew \/ modified THEN [doc EXCEPT !.slug = IdSlug(doc.brand, doc.name, id)] ELSE doc

InitSlugHooks ==
    /\ cars = <<>>
    /\ blobs = {}
    /\ nextId = 1
    /\ nextFile = 1
    /\ last = NoRequest
    /\ bookings = <<>>
    /\ saving = Idle

\* new Car({ brand, name, ... }).save(): pre-save hook, then the insert
saveNew ==
    /\ saving.pc \in {"idle", "done"}
    /\ nextId <= MaxSaves
    /\ \E brand \in BrandPatches \ {Unassigned}, name \in NamePatches \ {Unassigned} :
          cars' = Insert(cars, nextId,
                    SlugHook([brand |-> brand, name |-> name, slug |-> NoSlug],
                             nextId, TRUE, TRUE))
    /\ saving' = [pc |-> "postSave", id |-> nextId, before |-> NoCar]
    /\ nextId' = nextId + 1
    /\ UNCHANGED <<blobs, nextFile, last, bookings>>

\* a loaded document gets brand and/or name assigned and is saved
saveModified ==
    /\ saving.pc \in {"idle", "done"}
    /\ \E id \in DOMAIN cars, brand \in BrandPatches, name \in NamePatches :
          LET old == cars[id]
              doc == [old EXCEPT !.brand = IF brand = Unassigned THEN @ ELSE brand,
                                 !.name = IF name = Unassigned THEN @ ELSE name]
              modified == doc.brand # old.brand \/ doc.name # old.name
          IN  /\ cars' = [cars EXCEPT ![id] = SlugHook(doc, id, FALSE, modified)]
              /\ saving' = [pc |-> "postSave", id |-> id, before |-> old]
    /\ UNCHANGED <<blobs, nextId, nextFile, last, bookings>>

\* post('save') hook: a slug without the id suffix is rewritten and saved again
postSave ==
    /\ saving.pc = "postSave"
    /\ LET doc == cars[saving.id]
       IN  cars' = IF doc.slug # NoSlug /\ ~EndsWith(doc.slug, LastSix(IdString(saving.id)))
                   THEN [cars EXCEPT ![saving.id].slug = IdSlug(doc.brand, doc.name, saving.id)]
                   ELSE cars
    /\ saving' = [saving EXCEPT !.pc = "done"]
    /\ UNCHANGED <<blobs, nextId, nextFile, last, bookings>>

NextSlugHooks == saveNew \/ saveModified \/ postSave

SpecSlugHooks == InitSlugHooks /\ [][NextSlugHooks]_vars

-----------------------------------------------------------------------------
(* Scalar field patches of updateCar in carController.js, for requests that    *)
(* carry scalar fields only (no files, no imagesToDelete, no primaryImageIndex) *)

ScalarFields ==
    {"name", "brand", "type", "price", "description", "rating", "reviews",
     "seats", "fuel", "transmission", "available", "featured"}
FuelEnum == {"Petrol", "Diesel", "Electric", "Hybrid"}
TransmissionEnum == {"Automatic", "Manual"}

\* the form values tried for each field
FieldInputs ==
    {<<"name", " X6 ">>, <<"name", "">>, <<"brand", "Kia">>,
     <<"type", "SUV">>, <<"type", "Van">>,
     <<"price", "300">>, <<"price", "-100">>, <<"price", "150">>,
     <<"price", "abc">>, <<"price", "">>,
     <<"description", "d2">>,
     <<"rating", "4">>, <<"rating", "9">>, <<"rating", "abc">>,
     <<"reviews", "7">>, <<"reviews", "-3">>,
     <<"seats", "2">>, <<"seats", "99">>, <<"seats", "abc">>,
     <<"fuel", "Diesel">>, <<"transmission", "Manual">>,
     <<"available", "true">>, <<"available", "false">>, <<"featured", "true">>}

EmptyBody == [f \in ScalarFields |-> Undefined]

\* request bodies with at most two of the fields
PatchBodies ==
    {[f \in ScalarFields |-> IF f = a[1] THEN a[2] ELSE IF f = b[1] THEN b[2] ELSE Undefined] :
        a \in FieldInputs, b \in FieldInputs} \cup {EmptyBody}

\* Number(value) of a decimal form value
FormNumberDomain == {-3, 2, 4, 7, 9, 99}
FormNumber(value) == CHOOSE n \in FormNumberDomain : ToString(n) = value

\* Number(value) is NaN: Math.min and Math.max hand the NaN on
FormIsNaN(value) == \A n \in FormNumberDomain : ToString(n) # value

\* save: a NaN in a Number path fails the cast
CastFails(body) ==
    \E f \in {"rating", "reviews", "seats"} : body[f] # Undefined /\ FormIsNaN(body[f])

\* trim()
TrimString(text) == IF text = " X6 " THEN "X6" ELSE text

\* Math.min(hi, Math.max(lo, n))
Clamp(lo, hi, n) == IF n < lo THEN lo ELSE IF n > hi THEN hi ELSE n

\* value === 'true' || value === true
IsTrue(value) == value = "true"

\* createCar: carData built from a body with name, brand, price and description
CarData(body, images) ==
    [name |-> TrimString(body.name), brand |-> TrimString(body.brand),
     available |-> IsTrue(body.available), featured |-> IsTrue(body.featured),
     type |-> IF body.type = Undefined THEN "Sedan" ELSE body.type,
     price |-> NumberOf(body.price).val,
     description |-> TrimString(body.description),
     rating |-> IF body.rating = Undefined THEN 5 ELSE Clamp(0, 5, FormNumber(body.rating)),
     reviews |-> IF body.reviews = Undefined THEN 0
                 ELSE Clamp(0, FormNumber(body.reviews), FormNumber(body.reviews)),
     seats |-> IF body.seats = Undefined THEN 5 ELSE Clamp(1, 50, FormNumber(body.seats)),
     fuel |-> IF body.fuel = Undefined THEN "Petrol" ELSE body.fuel,
     transmission |-> IF body.transmission = Undefined THEN "Automatic" ELSE body.transmission,
     images |-> images, thumbnail |-> NoThumbnail, updatedAt |-> 0]

\* updateCar: each field is assigned only when the body has it
PatchFieldsResetsFlags(car, body) ==
    [car EXCEPT
        !.name = IF body.name # Undefined THEN TrimString(body.name) ELSE @,
        !.available = IsTrue(body.available),
        !.featured = IsTrue(body.featured)]
PatchFields(car, body) ==
    [car EXCEPT
        !.name = IF body.name # Undefined THEN TrimString(body.name) ELSE @,
        !.brand = IF body.brand # Undefined THEN TrimString(body.brand) ELSE @,
        !.type = IF body.type # Undefined THEN body.type ELSE @,
        !.price = IF body.price # Undefined THEN NumberOf(body.price).val ELSE @,
        !.description = IF body.description # Undefined
                        THEN TrimString(body.description) ELSE @,
        !.rating = IF body.rating # Undefined
                   THEN Clamp(0, 5, FormNumber(body.rating)) ELSE @,
        !.reviews = IF body.reviews # Undefined
                    THEN Clamp(0, FormNumber(body.reviews), FormNumber(body.reviews)) ELSE @,
        !.seats = IF body.seats # Undefined
                  THEN Clamp(1, 50, FormNumber(body.seats)) ELSE @,
        !.fuel = IF body.fuel # Undefined THEN body.fuel ELSE @,
        !.transmission = IF body.transmission # Undefined THEN body.transmission ELSE @,
        !.available = IF body.available # Undefined THEN IsTrue(body.available) ELSE @,
        !.featured = IF body.featured # Undefined THEN IsTrue(body.featured) ELSE @]

\* save: required strings, the enumerations, then the repository's answer
SaveErrorFields(doc, fault) ==
    IF \/ doc.name = "" \/ doc.brand = "" \/ doc.description = ""
       \/ doc.type \notin TypeEnum
       \/ doc.fuel \notin FuelEnum
       \/ doc.transmission \notin TransmissionEnum
    THEN "ValidationError" ELSE fault

FieldsResponse(id, answer, prev, body) ==
    [op |-> "updateCar", id |-> id, status |-> answer[1], error |-> answer[2],
     prev |-> prev, body |-> body]

\* a repository holding one listing that createCar stored
CreateBodies ==
    {[EmptyBody EXCEPT !.name = "X5", !.brand = "BMW", !.price = "300",
                       !.description = "d", !.available = flag] :
        flag \in {Undefined, "true"}}
    \cup {[EmptyBody EXCEPT !.name = "X5", !.brand = "BMW", !.price = "300",
                            !.description = "d", !.rating = "9", !.reviews = "-3",
                            !.seats = "99"]}
InitFields ==
    /\ \E body \in CreateBodies :
          cars = Insert(<<>>, 1, ThumbnailHook(CarData(body,
                    <<createImageObject(UploadResult("cars", 1), TRUE, 1)>>)))
    /\ blobs = {ObjectName("cars", 1)}
    /\ nextId = 2
    /\ nextFile = 2
    /\ last = NoRequest
    /\ bookings = <<>>
    /\ saving = <<>>

\* updateCar of carController.js on a body of scalar fields
updateCarFields ==
    /\ last = NoRequest
    /\ UNCHANGED <<blobs, nextId, nextFile, bookings, saving>>
    /\ \E id \in 1..nextId \cup {BadId} :
        IF id = BadId
        THEN /\ last' = FieldsResponse(id, <<400, "badId">>, NoCar, EmptyBody)
             /\ UNCHANGED cars
        ELSE IF id \notin DOMAIN cars
        THEN /\ last' = FieldsResponse(id, <<404, "notFound">>, NoCar, EmptyBody)
             /\ UNCHANGED cars
        ELSE \E body \in PatchBodies :
             /\ cars[id].updatedAt < MaxUpdates
             /\ IF body.price # Undefined /\ PriceThrows(body.price)
                THEN /\ last' = FieldsResponse(id, <<400, "input">>, cars[id], body)
                     /\ UNCHANGED cars
                ELSE IF CastFails(body)
                THEN /\ last' = FieldsResponse(id, <<400, "save">>, cars[id], body)
                     /\ UNCHANGED cars
                ELSE \E fault \in RepoFaults :
                     LET car == PatchFields(cars[id], body)
                         doc == [car EXCEPT !.images = EnsurePrimary(car.images),
                                            !.updatedAt = @ + 1]
                     IN  IF SaveErrorFields(doc, fault) # "none"
                         THEN /\ last' = FieldsResponse(id, <<400, "save">>, cars[id], body)
                              /\ cars' = Persist(cars, id, doc, FALSE)
                         ELSE /\ last' = FieldsResponse(id, <<200, "none">>, cars[id], body)
                              /\ cars' = Persist(cars, id, doc, TRUE)

NextFields == updateCarFields \/ nextRequest

SpecFields == InitFields /\ [][NextFields]_vars

-----------------------------------------------------------------------------
(* Claims *)

PersistedImages(id) == cars[id].images
ImageRef(img) == [url |-> img.url, filename |-> img.filename, path |-> img.path]

\* the images of a list that a deletion request does not name, in list order
Survivors(images, del) ==
    SelectSeq(images, LAMBDA img : img.filename \notin del /\ img.oid \notin del)

\* C1: every persisted listing has exactly one image with isPrimary = true
C1_ExactlyOnePrimary ==
    \A id \in DOMAIN cars : Cardinality(IsPrimaryAt(PersistedImages(id))) = 1

\* C2: every persisted listing has a non-empty images list, whatever requests
\* (successful, rejected or failed) have been handled
C2_ImagesNonEmpty ==
    \A id \in DOMAIN cars : Len(PersistedImages(id)) > 0

\* an update that asked to delete every image of a listing and uploaded nothing
\* has been handled, and the listing is still persisted
C2_Witness ==
    /\ last.op = "updateCar"
    /\ last.prev # NoCar
    /\ last.nfiles = 0
    /\ last.del # {}
    /\ Survivors(last.prev.images, last.del) = <<>>
    /\ last.id \in DOMAIN cars

\* C3: the persisted thumbnail of every listing is the (url, filename, path) of
\* the image of its list that is flagged isPrimary
C3_ThumbnailIsPrimary ==
    \A id \in DOMAIN cars :
        \E i \in DOMAIN PersistedImages(id) :
            /\ PersistedImages(id)[i].isPrimary
            /\ cars[id].thumbnail = ImageRef(PersistedImages(id)[i])

\* C4: when the save fails in createCar or updateCar after the uploads succeeded,
\* no object uploaded by that call is in the blob store once the handler returns
C4_RollbackOnSaveFailure ==
    (last.op \in {"createCar", "updateCar"} /\ last.error = "save")
        => last.uploaded \cap blobs = {}

\* C5: when createCar uploads several files and one upload fails, the uploads of
\* the batch that succeeded are gone from the blob store and no listing is persisted
C5_BatchRollback ==
    (last.op = "createCar" /\ last.error = "upload" /\ last.nfiles >= 2)
        => (last.uploaded \cap blobs = {} /\ last.id \notin DOMAIN cars)

\* C7: an updateCar whose deletions leave no image and which uploads none is
\* answered 400, the persisted listing is as before, and no object uploaded by
\* the request is in the blob store
C7_EmptyImageSetRejected ==
    (/\ last.op = "updateCar"
     /\ last.prev # NoCar
     /\ last.nfiles = 0
     /\ Survivors(last.prev.images, last.del) = <<>>)
        => (/\ last.status = 400
            /\ last.id \in DOMAIN cars
            /\ cars[last.id] = last.prev
            /\ last.uploaded \cap blobs = {})

\* the rejection for an empty image set has been answered
C7_Witness ==
    /\ last.op = "updateCar"
    /\ last.error = "empty"
    /\ last.status = 400
    /\ Len(last.prev.images) = 2
    /\ Survivors(last.prev.images, last.del) = <<>>

\* the same image apart from its isPrimary flag
SameImage(a, b) == ImageRef(a) = ImageRef(b) /\ a.oid = b.oid

\* the object numbers of images are increasing along a list (upload order)
InUploadOrder(images) ==
    \A i, j \in DOMAIN images : i < j => images[i].oid[2] < images[j].oid[2]

C10_AutoCorrectMultiplePrimaries ==
    (/\ last.op = "updateCar" /\ last.status = 200 /\ last.hint = Undefined
     /\ Cardinality(IsPrimaryAt(last.prev.images)) > 1)
        => IsPrimaryAt(PersistedImages(last.id)) = {1}

(* Claims about the disk controller *)

\* C6: when updateCar of the disk controller fails, the persisted listing is as
\* before, the file of each of its images is on disk, and the call removed only
\* files it had uploaded itself
C6_FailedUpdateLeavesListingIntact ==
    (last.op = "updateCar" /\ last.status >= 400 /\ last.prev # NoCar)
        => (/\ last.id \in DOMAIN cars
            /\ cars[last.id] = last.prev
            /\ \A i \in DOMAIN PersistedImages(last.id) :
                   UploadsDir \o PersistedImages(last.id)[i].filename \in blobs
            /\ last.removed \subseteq last.uploaded)

\* C8: a rejected createCar of the disk controller leaves none of the files that
\* multer stored for it on disk
C8_RejectedCreateLeavesNoFile ==
    (last.op = "createCar" /\ last.status >= 400) => last.uploaded \cap blobs = {}

(* Claims about primary selection and deletion in carController.js *)

\* the primaryImageIndex of the request is a number inside a list of n images
HintInRange(raw, n) ==
    /\ raw \in HintInputs \ {Undefined, ""}
    /\ ~ParseInt(raw).nan
    /\ ParseInt(raw).val >= 0
    /\ ParseInt(raw).val < n

\* the primaryImageIndex of the request is absent, or a number outside a list of
\* n images
HintAbsentOrOutOfRange(raw, n) ==
    \/ raw \in {Undefined, ""}
    \/ /\ raw \in HintInputs
       /\ ~ParseInt(raw).nan
       /\ (ParseInt(raw).val < 0 \/ ParseInt(raw).val >= n)

\* C11: a successful updateCar with primaryImageIndex h, 0 <= h < length of the
\* final list, saves isPrimary = true at index h and nowhere else
C11_HintSelectsPrimary ==
    (/\ last.op = "updateCar" /\ last.status = 200
     /\ HintInRange(last.hint, Len(PersistedImages(last.id))))
        => IsPrimaryAt(PersistedImages(last.id)) = {ParseInt(last.hint).val + 1}

\* an update moved the primary flag from index 0 to index 1 of two images
C11_Witness ==
    /\ last.op = "updateCar" /\ last.status = 200
    /\ last.hint = "1"
    /\ IsPrimaryAt(last.prev.images) = {1}
    /\ last.del = {} /\ last.nfiles = 0
    /\ Len(PersistedImages(last.id)) = 2
    /\ IsPrimaryAt(PersistedImages(last.id)) = {2}

\* C12: a successful updateCar whose primaryImageIndex is absent or out of range,
\* on a listing whose primary image survives the deletions, saves that same image
\* as the only primary; index 0 is primary only when no survivor was
C12_PrimaryPreserved ==
    (/\ last.op = "updateCar" /\ last.status = 200
     /\ HintAbsentOrOutOfRange(last.hint, Len(PersistedImages(last.id))))
        => LET kept == Survivors(last.prev.images, last.del)
               new == PersistedImages(last.id)
           IN  IF IsPrimaryAt(kept) # {}
               THEN \A k \in IsPrimaryAt(kept) :
                        /\ IsPrimaryAt(new) = {k}
                        /\ SameImage(new[k], kept[k])
               ELSE IsPrimaryAt(new) = {1}

\* C13: deleteCar on a well-formed id with no listing answers 404 and leaves the
\* repository and the blob store as they were; a deleteCar that answers success
\* leaves no listing under that id, so a second deleteCar on it answers 404
C13_DeleteMissingIs404 ==
    [][/\ (last'.op = "deleteCar" /\ last'.id # BadId /\ last'.id \notin DOMAIN cars)
            => (last'.status = 404 /\ cars' = cars /\ blobs' = blobs)
       /\ (last'.op = "deleteCar" /\ last'.status = 200)
            => last'.id \notin DOMAIN cars']_vars

\* deleteCar has answered 404 for an id that was created and deleted before
C13_Witness ==
    /\ last.op = "deleteCar"
    /\ last.status = 404
    /\ last.id < nextId

\* C15: after a deleteCar that answers success the listing is not in the
\* repository and no object uploaded for its images is in the blob store
C15_DeleteRemovesBlobs ==
    (last.op = "deleteCar" /\ last.status = 200)
        => (/\ last.id \notin DOMAIN cars
            /\ \A i \in DOMAIN last.prev.images :
                   last.prev.images[i].filename \notin blobs)

(* Claims about the strict controller *)

\* C14: a deleteCar of the strict controller on a listing with a confirmed
\* booking answers 409 and leaves the listing, its image files and the bookings
\* as they were, also when the booking lookup fails
C14_ConfirmedBookingBlocksDelete ==
    [][(/\ last'.op = "deleteCar"
        /\ last'.status # 403
        /\ last'.id \in DOMAIN cars
        /\ \E b \in DOMAIN bookings :
               bookings[b].car = last'.id /\ bookings[b].status = "confirmed")
          => (/\ last'.status = 409
              /\ cars' = cars
              /\ blobs' = blobs
              /\ bookings' = bookings)]_vars

\* C20: a 400 answer of createCar of the strict controller for invalid inputs
\* names every offending field of the request
C20_AllOffendingFieldsNamed ==
    (last.op = "createCar" /\ last.status = 400 /\ last.error = "input")
        => last.named = ValidationReportAll(last.body)

(* Claims about slugs *)

SlugChars == {LowerCaseLetters[i] : i \in DOMAIN LowerCaseLetters} \cup Digits \cup {Hyphen}

\* text is a slug: only [a-z0-9-], no hyphen at either end, no two hyphens in a row
WellFormedSlug(text) ==
    /\ \A i \in DOMAIN text : text[i] \in SlugChars
    /\ text # <<>> => (Head(text) # Hyphen /\ text[Len(text)] # Hyphen)
    /\ \A i \in 1..(Len(text) - 1) : ~(text[i] = Hyphen /\ text[i + 1] = Hyphen)

\* C16: the slug helper applied to brand-name-disambiguator returns a string of
\* [a-z0-9-] only, with no leading, trailing or doubled hyphen; ("BMW", "X5",
\* "abc123") gives "bmw-x5-abc123" and ("Mercedes-Benz!", "C Class", "000001")
\* gives "mercedes-benz-c-class-000001"
C16_SlugWellFormed ==
    last.op = "slugify" =>
        /\ WellFormedSlug(last.slug)
        /\ (last.brand = <<"B", "M", "W">> /\ last.name = <<"X", "5">> /\ last.id = <<"a", "b", "c", "1", "2", "3">>)
               => last.slug = <<"b", "m", "w", "-", "x", "5", "-", "a", "b", "c", "1", "2", "3">>
        /\ (last.brand = <<"M", "e", "r", "c", "e", "d", "e", "s", "-", "B", "e", "n", "z", "!">> /\ last.name = <<"C", " ", "C", "l", "a", "s", "s">> /\ last.id = <<"0", "0", "0", "0", "0", "1">>)
               => last.slug = <<"m", "e", "r", "c", "e", "d", "e", "s", "-", "b", "e", "n", "z", "-", "c", "-", "c", "l", "a", "s", "s", "-", "0", "0", "0", "0", "0", "1">>

\* C17: under the lookup-and-counter slug hook, saves of different listings with
\* the same brand and name never persist the same slug and no save fails with a
\* duplicate-key error, however the saves interleave
C17_NoSlugCollision ==
    /\ \A i, j \in DOMAIN cars : i # j => cars[i].slug # cars[j].slug
    /\ \A p \in Savers : saving[p].pc # "failed"

C19_AbsentFieldsUnchanged ==
    (last.op = "updateCar" /\ last.status = 200)
        => \A f \in ScalarFields :
               last.body[f] = Undefined => cars[last.id][f] = last.prev[f]

\* an update that renamed a listing whose available flag is set and was not sent
C19_Witness ==
    /\ last.op = "updateCar" /\ last.status = 200
    /\ last.body.name # Undefined
    /\ cars[last.id].name # last.prev.name
    /\ last.body.available = Undefined
    /\ last.prev.available
    /\ cars[last.id].available

\* C21: createCar, updateCar and deleteCar answer each failure kind with its
\* status: a rejected input, a missing image and an emptied image set with 400,
\* an unknown id with 404, a blob-store or repository failure with 500 or 503
C21_StatusPerFailureKind ==
    last.op \in {"createCar", "updateCar", "deleteCar"} =>
        /\ last.error \in {"input", "noImage", "empty"} => last.status = 400
        /\ last.error = "notFound" => last.status = 404
        /\ last.error \in {"upload", "repository"} => last.status \in {500, 503}

\* C22: a deleteFile call that finds no object or that throws never makes
\* updateCar or deleteCar fail: the request is not answered with a deletion
\* error, deleteCar still removes the record unless the repository fails, and a
\* successful updateCar has dropped every image the request named
C22_BlobDeleteNeverFatal ==
    (last.op \in {"updateCar", "deleteCar"} /\ last.deletes # <<>>) =>
        /\ last.error # "delete"
        /\ (last.op = "deleteCar" /\ last.error # "repository")
               => (last.status = 200 /\ last.id \notin DOMAIN cars)
        /\ last.op = "updateCar"
               => /\ last.error \in {"none", "upload", "empty", "save"}
                  /\ last.error = "none"
                        => /\ last.status = 200
                           /\ \A i \in DOMAIN cars[last.id].images :
                                  ~MatchesDelete(cars[last.id].images[i], last.del)

\* an update was saved without an image whose deleteFile call threw, while
\* another deleteFile call of the same request found no object
C22_Witness ==
    /\ last.op = "updateCar" /\ last.status = 200
    /\ \E i, j \in DOMAIN last.deletes :
           last.deletes[i] = "error" /\ last.deletes[j] = "ok"
    /\ last.removed = {}
    /\ Len(cars[last.id].images) < Len(last.prev.images)

\* the prices the claim has rejected: no decimal numeral, negative, or no
\* multiple of 100
DecimalNumerals == {ToString(n) : n \in PriceDomain}
PriceToReject(price) ==
    \/ price \notin DecimalNumerals
    \/ NumberOf(price).val < 0
    \/ NumberOf(price).val % 100 # 0

\* C23: every persisted listing has a price >= 0 that is a multiple of 100, a
\* rating in [0,5], reviews >= 0 and seats in [1,50]; an updateCar whose price is
\* negative, not a number or no multiple of 100 is rejected and leaves the
\* listing as it was
C23_NumericRanges ==
    /\ \A id \in DOMAIN cars :
          /\ cars[id].price >= 0 /\ cars[id].price % 100 = 0
          /\ cars[id].rating \in 0..5
          /\ cars[id].reviews >= 0
          /\ cars[id].seats \in 1..50
    /\ (/\ last.op = "updateCar" /\ last.prev # NoCar
        /\ last.body.price # Undefined /\ PriceToReject(last.body.price))
           => (last.status = 400 /\ cars[last.id] = last.prev)

(* Claims about updateCar of the strict controller *)

\* C24: updateCar of the strict controller removes only files of images of the
\* listing it updates: no file of an image of another listing is removed
C24_DeletesOnlyOwnFiles ==
    (last.op = "updateCar" /\ last.id \in DOMAIN last.repo) =>
        \A c \in DOMAIN last.repo \ {last.id} :
            \A i \in DOMAIN last.repo[c].images :
                CarsDir \o last.repo[c].images[i].filename \in last.store
                    => CarsDir \o last.repo[c].images[i].filename \in blobs

\* C25: a successful updateCar of the strict controller that uploads files and
\* names an index of the final list has flagged that image, and no other, as
\* the primary
C25_HintWithUploadsSelectsPrimary ==
    (/\ last.op = "updateCar" /\ last.status = 200 /\ last.nfiles > 0
     /\ HintInRange(last.hint, Len(cars[last.id].images)))
        => \A i \in DOMAIN cars[last.id].images :
               cars[last.id].images[i].isPrimary <=> (i - 1 = ParseInt(last.hint).val)

(* Claims about the Cloudinary controller *)

\* C26: when updateCar of the Cloudinary controller has saved a listing without
\* an image that imagesToDelete named, cloudinary.uploader.destroy was called
\* with the public_id of that image
C26_RemovedImagesDestroyed ==
    (last.op = "updateCar" /\ last.status = 200 /\ last.prev # NoCar) =>
        \A i \in DOMAIN last.prev.images :
            last.prev.images[i].url \in last.del
                => last.prev.images[i].public_id \in last.destroyed

(* Claims about the route table *)

\* C27: createCar, updateCar and deleteCar run only for an administrator: a
\* handler answers, and a listing or a stored object changes, only in a request
\* whose principal has the admin role
C27_AdminOnly ==
    [][/\ (last = NoRequest /\ last'.op \in ProtectedRoutes /\ last'.status # 401)
            => saving.role = "admin"
       /\ (cars' # cars \/ blobs' # blobs) => saving.role = "admin"]_vars

(* Claims about the booking controller *)

BookingHandlers == {"createBooking", "getAllBookings", "updateBookingStatus", "deleteBooking"}

\* C28: every booking handler calls res.json exactly once per request, and no
\* error leaves the handler after the response
C28_OneResponsePerRequest ==
    last.op \in BookingHandlers =>
        /\ last.res.calls = 1
        /\ Len(last.res.sent) = 1
        /\ ~last.res.uncaught

\* C29: once a createBooking and a deleteCar that ran concurrently have both
\* completed, no persisted booking references a car that the repository lacks
C29_NoOrphanBooking ==
    (saving.book.pc = "idle" /\ saving.del.pc = "idle") =>
        \A i \in DOMAIN bookings : bookings[i].car \in DOMAIN cars

(* Claims about concurrent requests *)

\* C30: once two concurrent updateCar requests of the disk controller on the
\* same listing have both completed, every image of the persisted listing has
\* its file in the uploads directory
C30_ImagesKeepTheirFiles ==
    (\A p \in Updaters : saving[p].pc = "done") =>
        \A id \in DOMAIN cars :
            \A i \in DOMAIN cars[id].images :
                UploadsDir \o cars[id].images[i].filename \in blobs

====
